---------------------------- MODULE Spec2Model ----------------------------
(***************************************************************************)
(* Binary node codec of the Merkle tree                                    *)
(* (core/lib/merkle_tree/src/storage/serialization.rs).                    *)
(*                                                                         *)
(* Representation of machine data:                                         *)
(*   - a byte string is a sequence of naturals in 0..255;                  *)
(*   - an unsigned machine word (u32 bitmap, u64 counter, 256-bit key) is  *)
(*     the set of the positions of its set bits, bit 0 being the least     *)
(*     significant one: 0 is {}, 1 is {0}, 513 is {0, 9}, u64::MAX is      *)
(*     0..63.  The words of the program do not fit the integers of the     *)
(*     model checker, their bits do;                                       *)
(*   - a string is the sequence of its UTF-8 bytes;                        *)
(*   - a Result is a record with a field ok.                               *)
(***************************************************************************)
EXTENDS Integers, Sequences, FiniteSets, TLC

KEY_SIZE == 32

HASH_SIZE == 32

Byte == 0..255

(***************************************************************************)
(* Machine words as sets of bit positions.                                 *)
(***************************************************************************)
Bit(w, i) == IF i \in w THEN 1 ELSE 0

\* The byte made of bits lo .. lo+7 of word w.
ByteOf(w, lo) ==
    Bit(w, lo) + 2 * Bit(w, lo + 1) + 4 * Bit(w, lo + 2) + 8 * Bit(w, lo + 3)
    + 16 * Bit(w, lo + 4) + 32 * Bit(w, lo + 5) + 64 * Bit(w, lo + 6)
    + 128 * Bit(w, lo + 7)

\* The bits of byte b, placed at positions lo .. lo+7.
BitsOfByte(b, lo) == { lo + i : i \in { j \in 0..7 : (b \div (2 ^ j)) % 2 = 1 } }

\* The word of a small natural, and the natural of a small word.
FromNat(n) == { i \in 0..30 : (n \div (2 ^ i)) % 2 = 1 }

RECURSIVE ToNat(_)
ToNat(w) == IF w = {} THEN 0
            ELSE LET i == CHOOSE j \in w : TRUE IN (2 ^ i) + ToNat(w \ {i})

Shr(w, n) == { i - n : i \in { j \in w : j >= n } }

Shl(w, n, width) == { i + n : i \in { j \in w : j + n < width } }

U64_MAX == 0..63

(***************************************************************************)
(* Results.                                                                *)
(***************************************************************************)
NoStr == << >>

Ok(v) == [ok |-> TRUE, val |-> v]

\* A value together with the cursor left after it.
OkRest(v, rest) == [ok |-> TRUE, val |-> v, rest |-> rest]

\* DeserializeError: kind, optional context, the tag name or key the kind
\* carries, and the inner error of Leb128 / Utf8 / MalformedTag.
Err(kind, context, name, inner) ==
    [ok |-> FALSE, kind |-> kind, context |-> context, name |-> name, inner |-> inner]

\* DeserializeErrorKind::into(): no context.
ErrKind(kind) == Err(kind, "None", NoStr, "None")

with_context(e, context) == [e EXCEPT !.context = context]

(***************************************************************************)
(* LEB128 (crate leb128), as called by the codec.                          *)
(***************************************************************************)
\* low_bits_of_u64: the low 7 bits of the word, as a byte.
low_bits_of_u64(val) == ByteOf({ i \in val : i < 7 }, 0)

RECURSIVE leb128_write_unsigned(_)
leb128_write_unsigned(val) ==
    LET byte == low_bits_of_u64(val)
        rest == Shr(val, 7)
    IN IF rest = {} THEN << byte >>
       ELSE << byte + 128 >> \o leb128_write_unsigned(rest)

\* After an overflow the reader skips the rest of the over-long integer.
RECURSIVE Leb128SkipOverflow(_)
Leb128SkipOverflow(bytes) ==
    IF bytes = << >> THEN Err("Leb128", "None", NoStr, "IoError")
    ELSE IF Head(bytes) >= 128 THEN Leb128SkipOverflow(Tail(bytes))
    ELSE Err("Leb128", "None", NoStr, "Overflow")

RECURSIVE Leb128ReadLoop(_, _, _)
Leb128ReadLoop(bytes, result, shift) ==
    IF bytes = << >> THEN Err("Leb128", "None", NoStr, "IoError")
    ELSE LET b == Head(bytes) IN
         IF shift = 63 /\ b # 0 /\ b # 1
         THEN IF b >= 128 THEN Leb128SkipOverflow(Tail(bytes))
              ELSE Err("Leb128", "None", NoStr, "Overflow")
         ELSE LET r == result \cup BitsOfByte(b % 128, shift) IN
              IF b < 128 THEN OkRest(r, Tail(bytes))
              ELSE Leb128ReadLoop(Tail(bytes), r, shift + 7)

leb128_read_unsigned(bytes) == Leb128ReadLoop(bytes, {}, 0)

(***************************************************************************)
(* Key (256-bit unsigned) and ValueHash (HASH_SIZE bytes).                 *)
(***************************************************************************)
\* Key::to_big_endian: the most significant byte first.
to_big_endian(key) == [ i \in 1..KEY_SIZE |-> ByteOf(key, 8 * (KEY_SIZE - i)) ]

\* Key::from_big_endian of a slice of KEY_SIZE bytes.
from_big_endian(slice) ==
    UNION { BitsOfByte(slice[i], 8 * (Len(slice) - i)) : i \in 1..Len(slice) }

\* ValueHash::from_slice / as_ref / as_bytes: the hash is its bytes.
from_slice(slice) == slice

as_bytes(hash) == hash

split_at(bytes, n) == << SubSeq(bytes, 1, n), SubSeq(bytes, n + 1, Len(bytes)) >>

(***************************************************************************)
(* LeafNode.                                                               *)
(***************************************************************************)
LeafNode(full_key, value_hash, leaf_index) ==
    [full_key |-> full_key, value_hash |-> value_hash, leaf_index |-> leaf_index]

\* Mutant: a failed read of leaf_index is taken as index 0.
LeafNode_deserialize_default_index(bytes) ==
    IF Len(bytes) < KEY_SIZE + HASH_SIZE THEN ErrKind("UnexpectedEof")
    ELSE LET full_key == from_big_endian(SubSeq(bytes, 1, KEY_SIZE))
             value_hash == from_slice(SubSeq(bytes, KEY_SIZE + 1, KEY_SIZE + HASH_SIZE))
             rest == SubSeq(bytes, KEY_SIZE + HASH_SIZE + 1, Len(bytes))
             leaf_index == leb128_read_unsigned(rest)
         IN IF ~leaf_index.ok THEN Ok(LeafNode(full_key, value_hash, {}))
            ELSE Ok(LeafNode(full_key, value_hash, leaf_index.val))

\* Mutant: the leaf index is read from the last byte of the input.
LeafNode_deserialize_index_at_end(bytes) ==
    IF Len(bytes) < KEY_SIZE + HASH_SIZE THEN ErrKind("UnexpectedEof")
    ELSE LET full_key == from_big_endian(SubSeq(bytes, 1, KEY_SIZE))
             value_hash == from_slice(SubSeq(bytes, KEY_SIZE + 1, KEY_SIZE + HASH_SIZE))
             rest == SubSeq(bytes, Len(bytes), Len(bytes))
             leaf_index == leb128_read_unsigned(rest)
         IN IF ~leaf_index.ok THEN with_context(leaf_index, "LeafIndex")
            ELSE Ok(LeafNode(full_key, value_hash, leaf_index.val))

LeafNode_deserialize(bytes) ==
    IF Len(bytes) < KEY_SIZE + HASH_SIZE THEN ErrKind("UnexpectedEof")
    ELSE LET full_key == from_big_endian(SubSeq(bytes, 1, KEY_SIZE))
             value_hash == from_slice(SubSeq(bytes, KEY_SIZE + 1, KEY_SIZE + HASH_SIZE))
             rest == SubSeq(bytes, KEY_SIZE + HASH_SIZE + 1, Len(bytes))
             leaf_index == leb128_read_unsigned(rest)
         IN IF ~leaf_index.ok THEN with_context(leaf_index, "LeafIndex")
            ELSE Ok(LeafNode(full_key, value_hash, leaf_index.val))

\* Mutant: the hash is written before the key.
LeafNode_serialize_hash_first(self, buffer) ==
    buffer \o as_bytes(self.value_hash) \o to_big_endian(self.full_key)
           \o leb128_write_unsigned(self.leaf_index)

LeafNode_serialize(self, buffer) ==
    buffer \o to_big_endian(self.full_key) \o as_bytes(self.value_hash)
           \o leb128_write_unsigned(self.leaf_index)

(***************************************************************************)
(* ChildKind and ChildRef.                                                 *)
(***************************************************************************)
ChildKind_None == 0

ChildKind_Internal == 1

ChildKind_Leaf == 2

MASK == 3

\* Mutant: the chunk 11 is taken for a leaf.
ChildKind_deserialize_three_is_leaf(bitmap_chunk) ==
    IF bitmap_chunk \in {ChildKind_None, ChildKind_Internal, ChildKind_Leaf}
    THEN Ok(bitmap_chunk)
    ELSE Ok(ChildKind_Leaf)

ChildKind_deserialize(bitmap_chunk) ==
    IF bitmap_chunk \in {ChildKind_None, ChildKind_Internal, ChildKind_Leaf}
    THEN Ok(bitmap_chunk)
    ELSE ErrKind("InvalidChildKind")

ChildRef(hash, version, is_leaf) ==
    [hash |-> hash, version |-> version, is_leaf |-> is_leaf]

\* Mutant: the is_leaf argument is dropped, every child is an internal node.
ChildRef_deserialize_never_leaf(buffer, is_leaf) ==
    IF Len(buffer) < HASH_SIZE
    THEN with_context(ErrKind("UnexpectedEof"), "ChildRefHash")
    ELSE LET parts == split_at(buffer, HASH_SIZE)
             hash == from_slice(parts[1])
             version == leb128_read_unsigned(parts[2])
         IN IF ~version.ok THEN with_context(version, "Version")
            ELSE OkRest(ChildRef(hash, version.val, FALSE), version.rest)

\* Mutant: a failed read of the version is taken as version 0.
ChildRef_deserialize_default_version(buffer, is_leaf) ==
    IF Len(buffer) < HASH_SIZE
    THEN with_context(ErrKind("UnexpectedEof"), "ChildRefHash")
    ELSE LET parts == split_at(buffer, HASH_SIZE)
             hash == from_slice(parts[1])
             version == leb128_read_unsigned(parts[2])
         IN IF ~version.ok THEN OkRest(ChildRef(hash, {}, is_leaf), << >>)
            ELSE OkRest(ChildRef(hash, version.val, is_leaf), version.rest)

ChildRef_deserialize(buffer, is_leaf) ==
    IF Len(buffer) < HASH_SIZE
    THEN with_context(ErrKind("UnexpectedEof"), "ChildRefHash")
    ELSE LET parts == split_at(buffer, HASH_SIZE)
             hash == from_slice(parts[1])
             version == leb128_read_unsigned(parts[2])
         IN IF ~version.ok THEN with_context(version, "Version")
            ELSE OkRest(ChildRef(hash, version.val, is_leaf), version.rest)

ChildRef_serialize(self, buffer) ==
    buffer \o as_bytes(self.hash) \o leb128_write_unsigned(self.version)

\* Mutant: the two kinds are swapped.
kind_swapped(self) == IF self.is_leaf THEN ChildKind_Internal ELSE ChildKind_Leaf

kind(self) == IF self.is_leaf THEN ChildKind_Leaf ELSE ChildKind_Internal

(***************************************************************************)
(* InternalNode: a map from the occupied slots, a subset of                *)
(* 0 .. CHILD_COUNT-1, to their ChildRef.                                  *)
(***************************************************************************)
CHILD_COUNT == 16

InternalNode(refs) == [children |-> refs]

\* InternalNode::with_capacity: no children yet.
with_capacity(child_count) == InternalNode(<< >>)

\* InternalNode::insert_child_ref.
insert_child_ref(this, i, child_ref) ==
    InternalNode([ s \in (DOMAIN this.children) \cup {i} |->
                     IF s = i THEN child_ref ELSE this.children[s] ])

\* The occupied slots in ascending order, the order of InternalNode::children()
\* and InternalNode::child_refs().
RECURSIVE SortedSlots(_)
SortedSlots(slots) ==
    IF slots = {} THEN << >>
    ELSE LET m == CHOOSE s \in slots : \A t \in slots : s <= t
         IN << m >> \o SortedSlots(slots \ {m})

children(self) == SortedSlots(DOMAIN self.children)

child_refs(self) ==
    [ k \in 1..Len(children(self)) |-> self.children[children(self)[k]] ]

u32_from_le_bytes(b) ==
    BitsOfByte(b[1], 0) \cup BitsOfByte(b[2], 8) \cup BitsOfByte(b[3], 16)
    \cup BitsOfByte(b[4], 24)

u32_to_le_bytes(w) == << ByteOf(w, 0), ByteOf(w, 8), ByteOf(w, 16), ByteOf(w, 24) >>

count_ones(w) == Cardinality(w)

\* Mutant: the bitmap is shifted by one bit a slot, not by two.
RECURSIVE InternalNode_deserialize_loop_shift_one(_, _, _, _)
InternalNode_deserialize_loop_shift_one(i, bitmap, bytes, this) ==
    IF i >= CHILD_COUNT THEN Ok(this)
    ELSE LET child_kind == ChildKind_deserialize(ToNat(bitmap \cap FromNat(MASK))) IN
         IF ~child_kind.ok THEN child_kind
         ELSE IF child_kind.val = ChildKind_None
         THEN InternalNode_deserialize_loop_shift_one(i + 1, Shr(bitmap, 1), bytes, this)
         ELSE LET child_ref ==
                      ChildRef_deserialize(bytes, child_kind.val = ChildKind_Leaf)
              IN IF ~child_ref.ok THEN child_ref
                 ELSE InternalNode_deserialize_loop_shift_one(
                          i + 1, Shr(bitmap, 1), child_ref.rest,
                          insert_child_ref(this, i, child_ref.val))

\* The loop `for i in 0..Self::CHILD_COUNT` of InternalNode::deserialize, from
\* iteration i on: bitmap is the shifted copy, bytes the cursor.
RECURSIVE InternalNode_deserialize_loop(_, _, _, _)
InternalNode_deserialize_loop(i, bitmap, bytes, this) ==
    IF i >= CHILD_COUNT THEN Ok(this)
    ELSE LET child_kind == ChildKind_deserialize(ToNat(bitmap \cap FromNat(MASK))) IN
         IF ~child_kind.ok THEN child_kind
         ELSE IF child_kind.val = ChildKind_None
         THEN InternalNode_deserialize_loop(i + 1, Shr(bitmap, 2), bytes, this)
         ELSE LET child_ref ==
                      ChildRef_deserialize(bytes, child_kind.val = ChildKind_Leaf)
              IN IF ~child_ref.ok THEN child_ref
                 ELSE InternalNode_deserialize_loop(
                          i + 1, Shr(bitmap, 2), child_ref.rest,
                          insert_child_ref(this, i, child_ref.val))

\* Mutant: the check for a zero bitmap is missing.
InternalNode_deserialize_no_empty_check(bytes) ==
    IF Len(bytes) < 4
    THEN with_context(ErrKind("UnexpectedEof"), "ChildrenMask")
    ELSE LET parts == split_at(bytes, 4)
             bitmap == u32_from_le_bytes(parts[1])
         IN InternalNode_deserialize_loop(0, bitmap, parts[2],
                                          with_capacity(count_ones(bitmap)))

InternalNode_deserialize(bytes) ==
    IF Len(bytes) < 4
    THEN with_context(ErrKind("UnexpectedEof"), "ChildrenMask")
    ELSE LET parts == split_at(bytes, 4)
             bitmap == u32_from_le_bytes(parts[1])
         IN IF bitmap = {} THEN ErrKind("EmptyInternalNode")
            ELSE InternalNode_deserialize_loop(0, bitmap, parts[2],
                                               with_capacity(count_ones(bitmap)))

\* Mutant: the offset of slot i is i, not 2 * i.
RECURSIVE InternalNode_bitmap_offset_i(_, _)
InternalNode_bitmap_offset_i(self, slots) ==
    IF slots = << >> THEN {}
    ELSE LET i == Head(slots)
             offset == i
         IN Shl(FromNat(kind(self.children[i])), offset, 32)
            \cup InternalNode_bitmap_offset_i(self, Tail(slots))

\* The bitmap built by the first loop of InternalNode::serialize.
RECURSIVE InternalNode_bitmap(_, _)
InternalNode_bitmap(self, slots) ==
    IF slots = << >> THEN {}
    ELSE LET i == Head(slots)
             offset == 2 * i
         IN Shl(FromNat(kind(self.children[i])), offset, 32)
            \cup InternalNode_bitmap(self, Tail(slots))

RECURSIVE serialize_child_refs(_, _)
serialize_child_refs(refs, buffer) ==
    IF refs = << >> THEN buffer
    ELSE serialize_child_refs(Tail(refs), ChildRef_serialize(Head(refs), buffer))

InternalNode_serialize(self, buffer) ==
    LET bitmap == InternalNode_bitmap(self, children(self))
    IN serialize_child_refs(child_refs(self), buffer \o u32_to_le_bytes(bitmap))

(***************************************************************************)
(* Node and Root.                                                          *)
(***************************************************************************)
Node_Leaf(leaf) == [tag |-> "Leaf", node |-> leaf]

Node_Internal(node) == [tag |-> "Internal", node |-> node]

Root_Empty == [tag |-> "Empty"]

\* Root::new: a filled root; leaf_count is not zero.
Root_new(leaf_count, node) == [tag |-> "Filled", leaf_count |-> leaf_count, node |-> node]

Node_serialize(self, buffer) ==
    IF self.tag = "Internal" THEN InternalNode_serialize(self.node, buffer)
    ELSE LeafNode_serialize(self.node, buffer)

\* Mutant: the leaf is tried first for every leaf_count but 0.
Root_deserialize_always_try_leaf(bytes0) ==
    LET leaf_count == leb128_read_unsigned(bytes0) IN
    IF ~leaf_count.ok THEN with_context(leaf_count, "LeafCount")
    ELSE LET bytes == leaf_count.rest IN
         IF leaf_count.val = FromNat(0) THEN Ok(Root_Empty)
         ELSE LET leaf == LeafNode_deserialize(bytes) IN
              IF leaf.ok THEN Ok(Root_new(leaf_count.val, Node_Leaf(leaf.val)))
              ELSE LET node == InternalNode_deserialize(bytes) IN
                   IF node.ok
                   THEN Ok(Root_new(leaf_count.val, Node_Internal(node.val)))
                   ELSE node

\* Mutant: when both attempts fail the error of the leaf attempt is returned.
Root_deserialize_leaf_error(bytes0) ==
    LET leaf_count == leb128_read_unsigned(bytes0) IN
    IF ~leaf_count.ok THEN with_context(leaf_count, "LeafCount")
    ELSE LET bytes == leaf_count.rest IN
         IF leaf_count.val = FromNat(0) THEN Ok(Root_Empty)
         ELSE IF leaf_count.val = FromNat(1)
         THEN LET leaf == LeafNode_deserialize(bytes) IN
              IF leaf.ok THEN Ok(Root_new(leaf_count.val, Node_Leaf(leaf.val)))
              ELSE LET node == InternalNode_deserialize(bytes) IN
                   IF node.ok
                   THEN Ok(Root_new(leaf_count.val, Node_Internal(node.val)))
                   ELSE leaf
         ELSE LET node == InternalNode_deserialize(bytes) IN
              IF node.ok THEN Ok(Root_new(leaf_count.val, Node_Internal(node.val)))
              ELSE node

\* Mutant: with leaf_count = 1 the internal node is tried first, then the leaf.
Root_deserialize_internal_first(bytes0) ==
    LET leaf_count == leb128_read_unsigned(bytes0) IN
    IF ~leaf_count.ok THEN with_context(leaf_count, "LeafCount")
    ELSE LET bytes == leaf_count.rest IN
         IF leaf_count.val = FromNat(0) THEN Ok(Root_Empty)
         ELSE IF leaf_count.val = FromNat(1)
         THEN LET node == InternalNode_deserialize(bytes) IN
              IF node.ok THEN Ok(Root_new(leaf_count.val, Node_Internal(node.val)))
              ELSE LET leaf == LeafNode_deserialize(bytes) IN
                   IF leaf.ok THEN Ok(Root_new(leaf_count.val, Node_Leaf(leaf.val)))
                   ELSE leaf
         ELSE LET node == InternalNode_deserialize(bytes) IN
              IF node.ok THEN Ok(Root_new(leaf_count.val, Node_Internal(node.val)))
              ELSE node

\* Mutant: with leaf_count = 1 only the leaf is tried.
Root_deserialize_no_fallback(bytes0) ==
    LET leaf_count == leb128_read_unsigned(bytes0) IN
    IF ~leaf_count.ok THEN with_context(leaf_count, "LeafCount")
    ELSE LET bytes == leaf_count.rest IN
         IF leaf_count.val = FromNat(0) THEN Ok(Root_Empty)
         ELSE IF leaf_count.val = FromNat(1)
         THEN LET leaf == LeafNode_deserialize(bytes) IN
              IF leaf.ok THEN Ok(Root_new(leaf_count.val, Node_Leaf(leaf.val)))
              ELSE leaf
         ELSE LET node == InternalNode_deserialize(bytes) IN
              IF node.ok THEN Ok(Root_new(leaf_count.val, Node_Internal(node.val)))
              ELSE node

\* Mutant: the leaf is taken only when it uses up the input.
Root_deserialize_leaf_exact(bytes0) ==
    LET leaf_count == leb128_read_unsigned(bytes0) IN
    IF ~leaf_count.ok THEN with_context(leaf_count, "LeafCount")
    ELSE LET bytes == leaf_count.rest IN
         IF leaf_count.val = FromNat(0) THEN Ok(Root_Empty)
         ELSE IF leaf_count.val = FromNat(1)
         THEN LET leaf == LeafNode_deserialize(bytes) IN
              IF leaf.ok /\ Len(bytes) = KEY_SIZE + HASH_SIZE
                               + Len(leb128_write_unsigned(leaf.val.leaf_index))
              THEN Ok(Root_new(leaf_count.val, Node_Leaf(leaf.val)))
              ELSE LET node == InternalNode_deserialize(bytes) IN
                   IF node.ok
                   THEN Ok(Root_new(leaf_count.val, Node_Internal(node.val)))
                   ELSE node
         ELSE LET node == InternalNode_deserialize(bytes) IN
              IF node.ok THEN Ok(Root_new(leaf_count.val, Node_Internal(node.val)))
              ELSE node

Root_deserialize(bytes0) ==
    LET leaf_count == leb128_read_unsigned(bytes0) IN
    IF ~leaf_count.ok THEN with_context(leaf_count, "LeafCount")
    ELSE LET bytes == leaf_count.rest IN
         IF leaf_count.val = FromNat(0) THEN Ok(Root_Empty)
         ELSE IF leaf_count.val = FromNat(1)
         THEN LET leaf == LeafNode_deserialize(bytes) IN
              IF leaf.ok THEN Ok(Root_new(leaf_count.val, Node_Leaf(leaf.val)))
              ELSE LET node == InternalNode_deserialize(bytes) IN
                   IF node.ok
                   THEN Ok(Root_new(leaf_count.val, Node_Internal(node.val)))
                   ELSE node
         ELSE LET node == InternalNode_deserialize(bytes) IN
              IF node.ok THEN Ok(Root_new(leaf_count.val, Node_Internal(node.val)))
              ELSE node

Root_serialize(self, buffer) ==
    IF self.tag = "Empty" THEN buffer \o leb128_write_unsigned(FromNat(0))
    ELSE Node_serialize(self.node, buffer \o leb128_write_unsigned(self.leaf_count))

(***************************************************************************)
(* Strings: UTF-8 validation, integer and boolean parsing and formatting.  *)
(***************************************************************************)
STR_architecture == << 97, 114, 99, 104, 105, 116, 101, 99, 116, 117, 114, 101 >>

STR_hasher == << 104, 97, 115, 104, 101, 114 >>

STR_depth == << 100, 101, 112, 116, 104 >>

STR_is_recovering == << 105, 115, 95, 114, 101, 99, 111, 118, 101, 114, 105, 110, 103 >>

STR_custom_prefix == << 99, 117, 115, 116, 111, 109, 46 >>

STR_true == << 116, 114, 117, 101 >>

STR_false == << 102, 97, 108, 115, 101 >>

IsCont(b) == b >= 128 /\ b <= 191

\* str::from_utf8 accepts exactly the well-formed UTF-8 byte sequences.
RECURSIVE Utf8Valid(_)
Utf8Valid(s) ==
    IF s = << >> THEN TRUE
    ELSE LET b == s[1]
             n == Len(s)
         IN IF b < 128 THEN Utf8Valid(Tail(s))
            ELSE IF b >= 194 /\ b <= 223
            THEN n >= 2 /\ IsCont(s[2]) /\ Utf8Valid(SubSeq(s, 3, n))
            ELSE IF b >= 224 /\ b <= 239
            THEN /\ n >= 3
                 /\ IsCont(s[2]) /\ IsCont(s[3])
                 /\ (b = 224 => s[2] >= 160)
                 /\ (b = 237 => s[2] <= 159)
                 /\ Utf8Valid(SubSeq(s, 4, n))
            ELSE IF b >= 240 /\ b <= 244
            THEN /\ n >= 4
                 /\ IsCont(s[2]) /\ IsCont(s[3]) /\ IsCont(s[4])
                 /\ (b = 240 => s[2] >= 144)
                 /\ (b = 244 => s[2] <= 143)
                 /\ Utf8Valid(SubSeq(s, 5, n))
            ELSE FALSE

IsDigit(b) == b >= 48 /\ b <= 57

\* usize::to_string: the decimal digits, no sign, no leading zero.
RECURSIVE to_string(_)
to_string(n) ==
    IF n < 10 THEN << 48 + n >>
    ELSE to_string(n \div 10) \o << 48 + (n % 10) >>

\* The decimal digits of usize::MAX = 2^64 - 1.
USIZE_MAX_DIGITS ==
    << 49, 56, 52, 52, 54, 55, 52, 52, 48, 55, 51, 55, 48, 57, 53, 53, 49, 54, 49, 53 >>

RECURSIVE StripZeros(_)
StripZeros(d) == IF d # << >> /\ Head(d) = 48 THEN StripZeros(Tail(d)) ELSE d

RECURSIVE LexGreater(_, _)
LexGreater(a, b) ==
    IF a = << >> THEN FALSE
    ELSE IF Head(a) # Head(b) THEN Head(a) > Head(b)
    ELSE LexGreater(Tail(a), Tail(b))

\* A digit string whose value does not fit usize.
OverflowsUsize(d) ==
    LET z == StripZeros(d) IN
    \/ Len(z) > Len(USIZE_MAX_DIGITS)
    \/ Len(z) = Len(USIZE_MAX_DIGITS) /\ LexGreater(z, USIZE_MAX_DIGITS)

RECURSIVE DigitPrefixLen(_)
DigitPrefixLen(d) ==
    IF d # << >> /\ IsDigit(Head(d)) THEN 1 + DigitPrefixLen(Tail(d)) ELSE 0

RECURSIVE DigitsValue(_, _)
DigitsValue(d, acc) ==
    IF d = << >> THEN acc ELSE DigitsValue(Tail(d), 10 * acc + (Head(d) - 48))

\* str::parse::<usize>: an optional `+`, then decimal digits, checked for
\* overflow digit by digit.
parse_usize(value) ==
    IF value = << >> THEN [ok |-> FALSE, inner |-> "Empty"]
    ELSE IF Len(value) = 1 /\ value[1] \in {43, 45}
    THEN [ok |-> FALSE, inner |-> "InvalidDigit"]
    ELSE LET digits == IF value[1] = 43 THEN Tail(value) ELSE value
             p == DigitPrefixLen(digits)
         IN IF OverflowsUsize(SubSeq(digits, 1, p))
            THEN [ok |-> FALSE, inner |-> "PosOverflow"]
            ELSE IF p < Len(digits) THEN [ok |-> FALSE, inner |-> "InvalidDigit"]
            ELSE [ok |-> TRUE, val |-> DigitsValue(StripZeros(digits), 0)]

\* str::parse::<bool>.
parse_bool(value) ==
    IF value = STR_true THEN [ok |-> TRUE, val |-> TRUE]
    ELSE IF value = STR_false THEN [ok |-> TRUE, val |-> FALSE]
    ELSE [ok |-> FALSE, inner |-> "ParseBoolError"]

\* str::strip_prefix.
has_prefix(s, prefix) ==
    Len(s) >= Len(prefix) /\ SubSeq(s, 1, Len(prefix)) = prefix

strip_prefix(s, prefix) == SubSeq(s, Len(prefix) + 1, Len(s))

\* k < w for a small natural k and a u64 word w.
NatLessWord(k, w) == (\E i \in w : i > 30) \/ k < ToNat(w)

(***************************************************************************)
(* TreeTags and Manifest.  The custom tags are a map from keys to values;  *)
(* the iteration order of the HashMap is any enumeration of its keys.      *)
(***************************************************************************)
None == [some |-> FALSE, val |-> << >>]

Some(v) == [some |-> TRUE, val |-> v]

TreeTags(architecture, hasher, depth, is_recovering, custom) ==
    [architecture |-> architecture, hasher |-> hasher, depth |-> depth,
     is_recovering |-> is_recovering, custom |-> custom]

HashMap_new == << >>

HashMap_insert(map, k, v) ==
    [ x \in (DOMAIN map) \cup {k} |-> IF x = k THEN v ELSE map[x] ]

\* Mutant: the check of str_len against the bytes left is missing, and
\* split_at panics on a length beyond the end of the slice.
deserialize_str_unchecked(bytes) ==
    LET str_len == leb128_read_unsigned(bytes) IN
    IF ~str_len.ok THEN str_len
    ELSE IF NatLessWord(Len(str_len.rest), str_len.val)
    THEN Err("Panic", "None", NoStr, "split_at")
    ELSE LET parts == split_at(str_len.rest, ToNat(str_len.val)) IN
         IF Utf8Valid(parts[1]) THEN OkRest(parts[1], parts[2])
         ELSE Err("Utf8", "None", NoStr, "Utf8Error")

\* Mutant: a string longer than the input is cut to what is left.
deserialize_str_clamped(bytes) ==
    LET str_len == leb128_read_unsigned(bytes) IN
    IF ~str_len.ok THEN str_len
    ELSE LET n == IF NatLessWord(Len(str_len.rest), str_len.val)
                  THEN Len(str_len.rest) ELSE ToNat(str_len.val)
             parts == split_at(str_len.rest, n)
         IN IF Utf8Valid(parts[1]) THEN OkRest(parts[1], parts[2])
            ELSE Err("Utf8", "None", NoStr, "Utf8Error")

deserialize_str(bytes) ==
    LET str_len == leb128_read_unsigned(bytes) IN
    IF ~str_len.ok THEN str_len
    ELSE IF NatLessWord(Len(str_len.rest), str_len.val) THEN ErrKind("UnexpectedEof")
    ELSE LET parts == split_at(str_len.rest, ToNat(str_len.val)) IN
         IF Utf8Valid(parts[1]) THEN OkRest(parts[1], parts[2])
         ELSE Err("Utf8", "None", NoStr, "Utf8Error")

serialize_str(bytes, s) == bytes \o leb128_write_unsigned(FromNat(Len(s))) \o s

\* Mutant: a depth that does not parse is taken as 0.
TreeTags_match_key_depth_default(t, key, value) ==
    IF key = STR_architecture THEN Ok([t EXCEPT !.architecture = Some(value)])
    ELSE IF key = STR_hasher THEN Ok([t EXCEPT !.hasher = Some(value)])
    ELSE IF key = STR_depth
    THEN LET parsed == parse_usize(value) IN
         IF ~parsed.ok THEN Ok([t EXCEPT !.depth = Some(0)])
         ELSE Ok([t EXCEPT !.depth = Some(parsed.val)])
    ELSE IF key = STR_is_recovering
    THEN LET parsed == parse_bool(value) IN
         IF ~parsed.ok THEN Err("MalformedTag", "None", STR_is_recovering, parsed.inner)
         ELSE Ok([t EXCEPT !.is_recovering = parsed.val])
    ELSE IF has_prefix(key, STR_custom_prefix)
    THEN Ok([t EXCEPT !.custom =
                HashMap_insert(@, strip_prefix(key, STR_custom_prefix), value)])
    ELSE Err("UnknownTag", "None", key, "None")

\* Mutant: a reserved key keeps the value of its first entry.
TreeTags_match_key_first_wins(t, key, value) ==
    IF key = STR_architecture
    THEN Ok(IF t.architecture.some THEN t ELSE [t EXCEPT !.architecture = Some(value)])
    ELSE IF key = STR_hasher
    THEN Ok(IF t.hasher.some THEN t ELSE [t EXCEPT !.hasher = Some(value)])
    ELSE IF key = STR_depth
    THEN LET parsed == parse_usize(value) IN
         IF ~parsed.ok THEN Err("MalformedTag", "None", STR_depth, parsed.inner)
         ELSE Ok(IF t.depth.some THEN t ELSE [t EXCEPT !.depth = Some(parsed.val)])
    ELSE IF key = STR_is_recovering
    THEN LET parsed == parse_bool(value) IN
         IF ~parsed.ok THEN Err("MalformedTag", "None", STR_is_recovering, parsed.inner)
         ELSE Ok([t EXCEPT !.is_recovering = @ \/ parsed.val])
    ELSE IF has_prefix(key, STR_custom_prefix)
    THEN Ok([t EXCEPT !.custom =
                HashMap_insert(@, strip_prefix(key, STR_custom_prefix), value)])
    ELSE Err("UnknownTag", "None", key, "None")

\* Mutant: an entry with an unknown key is skipped.
TreeTags_match_key_skip_unknown(t, key, value) ==
    IF key = STR_architecture THEN Ok([t EXCEPT !.architecture = Some(value)])
    ELSE IF key = STR_hasher THEN Ok([t EXCEPT !.hasher = Some(value)])
    ELSE IF key = STR_depth
    THEN LET parsed == parse_usize(value) IN
         IF ~parsed.ok THEN Err("MalformedTag", "None", STR_depth, parsed.inner)
         ELSE Ok([t EXCEPT !.depth = Some(parsed.val)])
    ELSE IF key = STR_is_recovering
    THEN LET parsed == parse_bool(value) IN
         IF ~parsed.ok THEN Err("MalformedTag", "None", STR_is_recovering, parsed.inner)
         ELSE Ok([t EXCEPT !.is_recovering = parsed.val])
    ELSE IF has_prefix(key, STR_custom_prefix)
    THEN Ok([t EXCEPT !.custom =
                HashMap_insert(@, strip_prefix(key, STR_custom_prefix), value)])
    ELSE Ok(t)

\* The body of the `match key` of TreeTags::deserialize: the accumulators t
\* after the entry (key, value), or the error that ends decoding.
TreeTags_match_key(t, key, value) ==
    IF key = STR_architecture THEN Ok([t EXCEPT !.architecture = Some(value)])
    ELSE IF key = STR_hasher THEN Ok([t EXCEPT !.hasher = Some(value)])
    ELSE IF key = STR_depth
    THEN LET parsed == parse_usize(value) IN
         IF ~parsed.ok THEN Err("MalformedTag", "None", STR_depth, parsed.inner)
         ELSE Ok([t EXCEPT !.depth = Some(parsed.val)])
    ELSE IF key = STR_is_recovering
    THEN LET parsed == parse_bool(value) IN
         IF ~parsed.ok THEN Err("MalformedTag", "None", STR_is_recovering, parsed.inner)
         ELSE Ok([t EXCEPT !.is_recovering = parsed.val])
    ELSE IF has_prefix(key, STR_custom_prefix)
    THEN Ok([t EXCEPT !.custom =
                HashMap_insert(@, strip_prefix(key, STR_custom_prefix), value)])
    ELSE Err("UnknownTag", "None", key, "None")

\* One entry: the key, then the value, read from the cursor.
TreeTags_read_value(key) ==
    IF ~key.ok THEN key
    ELSE (LET value == deserialize_str(key.rest) IN
          IF ~value.ok THEN value
          ELSE OkRest(<< key.val, value.val >>, value.rest))

TreeTags_read_entry(bytes) == TreeTags_read_value(deserialize_str(bytes))

\* The loop `for _ in 0..tag_count` of TreeTags::deserialize after `done`
\* iterations; t holds the five accumulators.
RECURSIVE TreeTags_deserialize_loop(_, _, _, _)
\* Mutant: the error of an entry gives way to the error of a later entry.
TreeTags_loop_step_last_error(done, tag_count, entry, t) ==
    IF ~entry.ok THEN entry
    ELSE (LET m == TreeTags_match_key(t, entry.val[1], entry.val[2])
              later == TreeTags_deserialize_loop(done + 1, tag_count, entry.rest, t)
          IN IF ~m.ok THEN (IF later.ok THEN m ELSE later)
             ELSE TreeTags_deserialize_loop(done + 1, tag_count, entry.rest, m.val))

TreeTags_loop_step(done, tag_count, entry, t) ==
    IF ~entry.ok THEN entry
    ELSE (LET m == TreeTags_match_key(t, entry.val[1], entry.val[2]) IN
          IF ~m.ok THEN m
          ELSE TreeTags_deserialize_loop(done + 1, tag_count, entry.rest, m.val))

TreeTags_deserialize_loop(done, tag_count, bytes, t) ==
    IF ~NatLessWord(done, tag_count) THEN OkRest(t, bytes)
    ELSE TreeTags_loop_step(done, tag_count, TreeTags_read_entry(bytes), t)

\* Mutant: a missing hasher tag defaults to the empty string.
TreeTags_finish_default_hasher(r) ==
    IF ~r.ok THEN r
    ELSE IF ~r.val.architecture.some
    THEN Err("MissingTag", "None", STR_architecture, "None")
    ELSE IF ~r.val.depth.some
    THEN Err("MissingTag", "None", STR_depth, "None")
    ELSE OkRest(TreeTags(r.val.architecture.val, r.val.hasher.val,
                         r.val.depth.val, r.val.is_recovering, r.val.custom),
                r.rest)

\* The construction of the result after the loop: the required tags.
TreeTags_finish(r) ==
    IF ~r.ok THEN r
    ELSE IF ~r.val.architecture.some
    THEN Err("MissingTag", "None", STR_architecture, "None")
    ELSE IF ~r.val.hasher.some
    THEN Err("MissingTag", "None", STR_hasher, "None")
    ELSE IF ~r.val.depth.some
    THEN Err("MissingTag", "None", STR_depth, "None")
    ELSE OkRest(TreeTags(r.val.architecture.val, r.val.hasher.val,
                         r.val.depth.val, r.val.is_recovering, r.val.custom),
                r.rest)

TreeTags_after_count(tag_count) ==
    IF ~tag_count.ok THEN tag_count
    ELSE TreeTags_finish(
             TreeTags_deserialize_loop(0, tag_count.val, tag_count.rest,
                                       TreeTags(None, None, None, FALSE, HashMap_new)))

TreeTags_deserialize(bytes) == TreeTags_after_count(leb128_read_unsigned(bytes))

\* Mutant: the custom keys are written without the `custom.` prefix.
RECURSIVE serialize_custom_no_prefix(_, _, _)
serialize_custom_no_prefix(custom, order, buffer) ==
    IF order = << >> THEN buffer
    ELSE serialize_custom_no_prefix(custom, Tail(order),
             serialize_str(serialize_str(buffer, Head(order)), custom[Head(order)]))

\* The loop `for (custom_key, value) in &self.custom`, the keys in the order
\* the map yields them.
RECURSIVE serialize_custom(_, _, _)
serialize_custom(custom, order, buffer) ==
    IF order = << >> THEN buffer
    ELSE serialize_custom(custom, Tail(order),
             serialize_str(serialize_str(buffer, STR_custom_prefix \o Head(order)),
                           custom[Head(order)]))

\* Mutant: is_recovering is written also when false, outside the count.
TreeTags_serialize_always_flag(self, order, buffer) ==
    LET entry_count ==
            FromNat(3 + (IF self.is_recovering THEN 1 ELSE 0) + Cardinality(DOMAIN self.custom))
        b0 == buffer \o leb128_write_unsigned(entry_count)
        b1 == serialize_str(serialize_str(b0, STR_architecture), self.architecture)
        b2 == serialize_str(serialize_str(b1, STR_depth), to_string(self.depth))
        b3 == serialize_str(serialize_str(b2, STR_hasher), self.hasher)
        b4 == serialize_str(serialize_str(b3, STR_is_recovering),
                            IF self.is_recovering THEN STR_true ELSE STR_false)
    IN serialize_custom(self.custom, order, b4)

TreeTags_serialize(self, order, buffer) ==
    LET entry_count ==
            FromNat(3 + (IF self.is_recovering THEN 1 ELSE 0) + Cardinality(DOMAIN self.custom))
        b0 == buffer \o leb128_write_unsigned(entry_count)
        b1 == serialize_str(serialize_str(b0, STR_architecture), self.architecture)
        b2 == serialize_str(serialize_str(b1, STR_depth), to_string(self.depth))
        b3 == serialize_str(serialize_str(b2, STR_hasher), self.hasher)
        b4 == IF self.is_recovering
              THEN serialize_str(serialize_str(b3, STR_is_recovering), STR_true)
              ELSE b3
    IN serialize_custom(self.custom, order, b4)

Manifest(version_count, tags) == [version_count |-> version_count, tags |-> tags]

Manifest_tags(version_count, tags) ==
    IF ~tags.ok THEN tags ELSE Ok(Manifest(version_count, Some(tags.val)))

\* Mutant: a tag block that does not decode is taken as no tags.
Manifest_after_count_tags_optional(version_count) ==
    IF ~version_count.ok THEN version_count
    ELSE IF version_count.rest = << >> THEN Ok(Manifest(version_count.val, None))
    ELSE IF ~TreeTags_deserialize(version_count.rest).ok
    THEN Ok(Manifest(version_count.val, None))
    ELSE Manifest_tags(version_count.val, TreeTags_deserialize(version_count.rest))

Manifest_after_count(version_count) ==
    IF ~version_count.ok THEN version_count
    ELSE IF version_count.rest = << >> THEN Ok(Manifest(version_count.val, None))
    ELSE Manifest_tags(version_count.val, TreeTags_deserialize(version_count.rest))

Manifest_deserialize(bytes) == Manifest_after_count(leb128_read_unsigned(bytes))

Manifest_serialize(self, order, buffer) ==
    LET b0 == buffer \o leb128_write_unsigned(self.version_count) IN
    IF self.tags.some THEN TreeTags_serialize(self.tags.val, order, b0) ELSE b0

(***************************************************************************)
(* The values the codec is exercised on.                                   *)
(***************************************************************************)
\* The most children a sampled internal node has (besides the full node).
MaxChildren == 2

\* The most custom tags a sampled manifest has.
MaxCustom == 2

Fill(b, n) == [ i \in 1..n |-> b ]

\* Keys: 513; a key whose first byte is 0x01; one whose first byte is 0x03; the
\* largest key.
KeySample == { {0, 9}, {248}, {248, 249}, 0..255 }

LeafSample ==
    { LeafNode(k, Fill(4, HASH_SIZE), x) : k \in KeySample, x \in { FromNat(42), U64_MAX } }
    \cup { LeafNode({0, 9}, Fill(200, HASH_SIZE), FromNat(300)) }

SlotSample == { 0, 11, CHILD_COUNT - 1 }

RefSample ==
    { ChildRef(Fill(1, HASH_SIZE), FromNat(3), FALSE),
      ChildRef(Fill(11, HASH_SIZE), FromNat(2), TRUE),
      ChildRef(Fill(200, HASH_SIZE), U64_MAX, TRUE) }

\* The node with all CHILD_COUNT slots occupied, leaves at the odd slots.
FullNode ==
    InternalNode([ s \in 0..(CHILD_COUNT - 1) |->
        ChildRef(Fill(s + 1, HASH_SIZE), FromNat(128 * s + 1), s % 2 = 1) ])

InternalSample ==
    { FullNode } \cup
    { InternalNode(refs) :
        refs \in UNION { [ S -> RefSample ] :
                         S \in { T \in SUBSET SlotSample :
                                   Cardinality(T) >= 1 /\ Cardinality(T) <= MaxChildren } } }

RootLeafSample ==
    { LeafNode(k, Fill(4, HASH_SIZE), FromNat(42)) : k \in KeySample }

RootInternalSample ==
    { n \in InternalSample :
        \A s \in DOMAIN n.children : n.children[s].version # FromNat(2) }

RootSample ==
    { Root_Empty } \cup
    { Root_new(c, Node_Leaf(l)) : c \in { FromNat(1), FromNat(2) }, l \in RootLeafSample }
    \cup
    { Root_new(c, Node_Internal(n)) :
        c \in { FromNat(1), FromNat(2) }, n \in RootInternalSample }
    \cup { Root_new(FromNat(300), Node_Internal(FullNode)) }

STR_AR16MT == << 65, 82, 49, 54, 77, 84 >>

STR_no_op256 == << 110, 111, 95, 111, 112, 50, 53, 54 >>

STR_test == << 116, 101, 115, 116 >>

STR_1 == << 49 >>

\* Custom keys: `test`, the reserved name `depth`, and `custom.x`.
CustomKeySample == { STR_test, STR_depth, STR_custom_prefix \o << 120 >> }

CustomValue(k) == IF k = STR_test THEN STR_1 ELSE IF k = STR_depth THEN STR_true ELSE << >>

CustomSample ==
    { [ k \in S |-> CustomValue(k) ] :
        S \in { T \in SUBSET CustomKeySample : Cardinality(T) <= MaxCustom } }

TagsSample ==
    { TreeTags(STR_AR16MT, STR_no_op256, 256, r, c) :
        r \in BOOLEAN, c \in CustomSample }
    \cup { TreeTags(<< 195, 169 >>, << >>, 0, FALSE, HashMap_new) }

ManifestSample ==
    { Manifest(FromNat(42), None), Manifest(FromNat(300), None) }
    \cup { Manifest(FromNat(42), Some(t)) : t \in TagsSample }

Values ==
    { [type |-> "leaf", v |-> l] : l \in LeafSample }
    \cup { [type |-> "internal", v |-> n] : n \in InternalSample }
    \cup { [type |-> "root", v |-> r] : r \in RootSample }
    \cup { [type |-> "manifest", v |-> m] : m \in ManifestSample }

\* The enumerations of a finite set: the orders a HashMap may iterate in.
Orders(S) ==
    { f \in [ 1..Cardinality(S) -> S ] :
        \A i, j \in 1..Cardinality(S) : i # j => f[i] # f[j] }

CustomKeys(val) ==
    IF val.type = "manifest" /\ val.v.tags.some
    THEN DOMAIN val.v.tags.val.custom ELSE {}

(***************************************************************************)
(* ValidationTracer (vm_fast): the two flags, the two callbacks of the     *)
(* Tracer, and the two queries.                                            *)
(***************************************************************************)
ValidationTracer(out_of_gas, in_validation) ==
    [out_of_gas |-> out_of_gas, in_validation |-> in_validation]

\* #[derive(Default)]: both flags false.
ValidationTracer_default == ValidationTracer(FALSE, FALSE)

Ret_Panic == "Ret(Panic)"

Hook_AccountValidationEntered == "AccountValidationEntered"

Hook_ValidationExited == "ValidationExited"

\* Mutant: the flag is assigned at every instruction seen in validation.
before_instruction_assigns(self, op, gas) ==
    IF ~self.in_validation THEN self
    ELSE [self EXCEPT !.out_of_gas = (op = Ret_Panic /\ gas = 0)]

\* Mutant: no check that validation is under way.
before_instruction_anywhere(self, op, gas) ==
    IF op = Ret_Panic /\ gas = 0 THEN [self EXCEPT !.out_of_gas = TRUE]
    ELSE self

\* before_instruction::<OP, S>(state): op is OP::VALUE and gas is
\* state.current_frame().gas(); the tracer after the call.
before_instruction(self, op, gas) ==
    IF ~self.in_validation THEN self
    ELSE IF op = Ret_Panic /\ gas = 0 THEN [self EXCEPT !.out_of_gas = TRUE]
    ELSE self

\* on_bootloader_hook(hook): the tracer after the call.
on_bootloader_hook(self, hook) ==
    IF hook = Hook_AccountValidationEntered THEN [self EXCEPT !.in_validation = TRUE]
    ELSE IF hook = Hook_ValidationExited THEN [self EXCEPT !.in_validation = FALSE]
    ELSE self

probably_out_of_gas(self) == self.out_of_gas

\* ViolatedValidationRule::TookTooManyComputationalGas(limit).
TookTooManyComputationalGas(limit) == << "TookTooManyComputationalGas", limit >>

validation_error(self) ==
    IF self.out_of_gas THEN Some(TookTooManyComputationalGas(0)) ELSE None

(***************************************************************************)
(* The state machine: a value is serialized into an empty buffer, the      *)
(* bytes (or a proper prefix of them) are handed to a decoder, and a       *)
(* decoded value is serialized again.                                      *)
(***************************************************************************)
VARIABLES
    orig,       \* the value first serialized
    current,    \* the value held in memory: orig, then the decoded value
    encoded,    \* the bytes serialize wrote for orig
    input,      \* the bytes handed to the decoder
    shape,      \* how input derives from encoded: "whole", "prefix", or the
                \* name of the change made to it
    edit,       \* the change made to the bytes: the key and number concerned
                \* and the bytes put in
    decoder,    \* the decoder applied: "leaf", "internal", "root", "manifest"
    outcome,    \* what the decoder returned
    reencoded,  \* the bytes serialize wrote for the decoded value
    pc,         \* "new", "encoded", "decoded", "reencoded"
    tracer,     \* the ValidationTracer
    calls       \* the calls the VM has made to the tracer, in order, each
                \* with the tracer it was made on

vars ==
    << orig, current, encoded, input, shape, edit, decoder, outcome, reencoded, pc,
       tracer, calls >>

NoOutcome == ErrKind("NotRun")

Edit(key, n, bytes) == [key |-> key, n |-> n, bytes |-> bytes]

NoEdit == Edit(<< >>, 0, << >>)

Init ==
    /\ orig \in Values
    /\ current = orig
    /\ encoded = << >>
    /\ input = << >>
    /\ shape = "whole"
    /\ edit = NoEdit
    /\ decoder = "none"
    /\ outcome = NoOutcome
    /\ reencoded = << >>
    /\ pc = "new"
    /\ tracer = ValidationTracer_default
    /\ calls = << >>

\* The bytes land in encoded (first serialization) or reencoded (second).
Written(bytes) ==
    /\ pc = "new" \/ (pc = "decoded" /\ outcome.ok)
    /\ IF pc = "new"
       THEN /\ encoded' = bytes
            /\ input' = bytes
            /\ reencoded' = reencoded
            /\ pc' = "encoded"
       ELSE /\ reencoded' = bytes
            /\ encoded' = encoded
            /\ input' = input
            /\ pc' = "reencoded"
    /\ UNCHANGED << orig, current, shape, edit, decoder, outcome,
                       tracer, calls >>

SerializeLeaf ==
    /\ current.type = "leaf"
    /\ Written(LeafNode_serialize(current.v, << >>))

SerializeInternal ==
    /\ current.type = "internal"
    /\ Written(InternalNode_serialize(current.v, << >>))

SerializeRoot ==
    /\ current.type = "root"
    /\ Written(Root_serialize(current.v, << >>))

SerializeManifest ==
    /\ current.type = "manifest"
    /\ \E order \in Orders(CustomKeys(current)) :
          Written(Manifest_serialize(current.v, order, << >>))

\* The caller hands over only the first n bytes.
Truncate ==
    /\ pc = "encoded"
    /\ shape = "whole"
    /\ \E n \in 0..(Len(encoded) - 1) : input' = SubSeq(encoded, 1, n)
    /\ shape' = "prefix"
    /\ UNCHANGED << orig, current, encoded, edit, decoder, outcome, reencoded, pc,
                       tracer, calls >>

Decoded(type, result) ==
    /\ decoder' = type
    /\ outcome' = result
    /\ current' = IF result.ok THEN [type |-> type, v |-> result.val] ELSE current
    /\ pc' = "decoded"
    /\ UNCHANGED << orig, encoded, input, shape, edit, reencoded,
                       tracer, calls >>

DeserializeLeaf ==
    /\ pc = "encoded"
    /\ Decoded("leaf", LeafNode_deserialize(input))

DeserializeInternal ==
    /\ pc = "encoded"
    /\ Decoded("internal", InternalNode_deserialize(input))

DeserializeRoot ==
    /\ pc = "encoded"
    /\ Decoded("root", Root_deserialize(input))

DeserializeManifest ==
    /\ pc = "encoded"
    /\ Decoded("manifest", Manifest_deserialize(input))

(***************************************************************************)
(* Changed buffers.  The tests overwrite bytes of a serialized manifest    *)
(* before decoding it; the decoders take any bytes a caller passes.        *)
(***************************************************************************)
\* bytes with the positions from .. to replaced by the sequence new.
Splice(bytes, from, to, new) ==
    SubSeq(bytes, 1, from - 1) \o new \o SubSeq(bytes, to + 1, Len(bytes))

\* The tag entries of a buffer read one after another until the bytes end;
\* `at` is the index in the buffer of the first byte of the entry.
RECURSIVE ReadEntries(_, _)
ReadEntryAt(entry, bytes, at) ==
    IF ~entry.ok
    THEN << [ok |-> FALSE, key |-> << >>, value |-> << >>, at |-> at] >>
    ELSE << [ok |-> TRUE, key |-> entry.val[1], value |-> entry.val[2], at |-> at] >>
         \o ReadEntries(entry.rest, at + (Len(bytes) - Len(entry.rest)))

ReadEntries(bytes, at) ==
    IF bytes = << >> THEN << >>
    ELSE ReadEntryAt(TreeTags_read_entry(bytes), bytes, at)

\* The index of the first byte of the tag count of a manifest buffer.
TagCountAt(buffer) == Len(buffer) - Len(leb128_read_unsigned(buffer).rest) + 1

\* The tag count written in a manifest buffer, and the bytes after it.
ReadTagCount(buffer) == leb128_read_unsigned(leb128_read_unsigned(buffer).rest)

TagEntriesOf(buffer) ==
    ReadEntries(ReadTagCount(buffer).rest,
                Len(buffer) - Len(ReadTagCount(buffer).rest) + 1)

ReservedKeys == { STR_architecture, STR_depth, STR_hasher, STR_is_recovering }

\* Keys of the length of key: the first letter in upper case, the last byte
\* replaced by `_`, and `custom.xx..` cut or filled to the length.
Renamings(key) ==
    { [key EXCEPT ![1] = @ - 32],
      [key EXCEPT ![Len(key)] = 95],
      SubSeq(STR_custom_prefix \o Fill(120, Len(key)), 1, Len(key)) }

\* Values for a `depth` entry.
DepthValueSample ==
    { << >>,                                    \* empty
      << 97 >>,                                 \* a
      << 45, 49 >>,                             \* -1
      << 43, 50, 53, 54 >>,                     \* +256
      << 49, 46, 53 >>,                         \* 1.5
      << 50, 53, 54, 32 >>,                     \* 256 and a space
      << 48, 50, 53, 54 >>,                     \* 0256
      << 217, 163 >>,                           \* the digit three, U+0663
      << 50, 255 >>,                            \* 2, then a byte that is not UTF-8
      Fill(48, 21) \o << 50, 53, 54 >>,         \* 21 zeros, then 256
      [USIZE_MAX_DIGITS EXCEPT ![20] = 54],     \* 2^64
      Fill(57, 21) \o << 120 >> }               \* 21 nines, then x

\* Values for an `is_recovering` entry.
BoolValueSample ==
    { << >>, << 49 >>, STR_false, [STR_true EXCEPT ![1] = 84],
      << 32 >> \o STR_true, STR_true \o << 0 >> }

KindSlotSample == { 0, 5, 11, CHILD_COUNT - 1 }

\* The bitmap byte b with the two bits at offset o (0, 2, 4 or 6) both set.
WithKindBits(b, o) == b + (3 - ((b \div (2 ^ o)) % 4)) * (2 ^ o)

\* bytes with the child kind of slot i set to 11 in the bitmap.
SetKindBits(bytes, i) ==
    [bytes EXCEPT ![1 + ((2 * i) \div 8)] = WithKindBits(@, (2 * i) % 8)]

CountSample == { 0, 1, 2, 300 }

CraftedSample ==
    { Fill(255, 11),
      Fill(128, 9) \o << 1 >>,
      Fill(128, 9) \o << 2 >>,
      << 42, 1 >> \o Fill(255, 9) \o << 1, 97 >>,
      << 42, 1, 5, 97 >>,
      << 42 >> \o Fill(255, 9) \o << 1 >>,
      << 42, 1, 1, 255, 0 >>,
      << 42, 0 >>,
      serialize_str(serialize_str(serialize_str(serialize_str(<< 42, 2 >>,
          STR_architecture), STR_AR16MT), STR_hasher), STR_no_op256),
      Fill(0, KEY_SIZE + HASH_SIZE - 1),
      Fill(0, KEY_SIZE + HASH_SIZE),
      Fill(0, KEY_SIZE + HASH_SIZE) \o Fill(255, 11),
      << 1, 0, 0 >>,
      << 1, 0, 0, 0 >> \o Fill(7, HASH_SIZE - 1),
      << 1, 0, 0, 0 >> \o Fill(7, HASH_SIZE) \o Fill(255, 11),
      << 2 >>,
      << 0, 9, 9 >>,
      << 1 >> \o Fill(0, KEY_SIZE + HASH_SIZE) \o << 5 >>,
      << 1, 3, 0, 0, 0 >> }

\* tests::manifest_serialization_errors, "Replace architecture ->
\* Architecture": the key of one reserved entry is overwritten.
RenameTag ==
    /\ pc = "encoded" /\ shape = "whole"
    /\ orig.type = "manifest" /\ orig.v.tags.some
    /\ \E k \in DOMAIN TagEntriesOf(encoded) :
          LET e == TagEntriesOf(encoded)[k] IN
          /\ e.key \in ReservedKeys
          /\ \E new \in Renamings(e.key) :
                /\ input' = Splice(encoded, e.at + 1, e.at + Len(e.key), new)
                /\ edit' = Edit(e.key, k, new)
    /\ shape' = "renamed"
    /\ UNCHANGED << orig, current, encoded, decoder, outcome, reencoded, pc,
                       tracer, calls >>

\* tests::manifest_serialization_errors, "decreased number of tags".
LowerTagCount ==
    /\ pc = "encoded" /\ shape = "whole"
    /\ orig.type = "manifest" /\ orig.v.tags.some
    /\ \E k \in 0..(encoded[TagCountAt(encoded)] - 1) :
          /\ input' = [encoded EXCEPT ![TagCountAt(encoded)] = k]
          /\ edit' = Edit(<< >>, k, << >>)
    /\ shape' = "count"
    /\ UNCHANGED << orig, current, encoded, decoder, outcome, reencoded, pc,
                       tracer, calls >>

\* The value of the `depth` or the `is_recovering` entry is replaced, with
\* its length prefix.
SetTagValue ==
    /\ pc = "encoded" /\ shape = "whole"
    /\ orig.type = "manifest" /\ orig.v.tags.some
    /\ \E k \in DOMAIN TagEntriesOf(encoded) :
          LET e == TagEntriesOf(encoded)[k]
              vat == e.at + 1 + Len(e.key)
          IN /\ e.key \in { STR_depth, STR_is_recovering }
             /\ \E new \in (IF e.key = STR_depth THEN DepthValueSample
                            ELSE BoolValueSample) :
                   /\ input' = Splice(encoded, vat, vat + Len(e.value),
                                      serialize_str(<< >>, new))
                   /\ edit' = Edit(e.key, k, new)
    /\ shape' = "value"
    /\ UNCHANGED << orig, current, encoded, decoder, outcome, reencoded, pc,
                       tracer, calls >>

\* The first n bytes of a serialized internal node, the kind of slot i set
\* to 11 in the bitmap.
CorruptKind ==
    /\ pc = "encoded" /\ shape = "whole"
    /\ orig.type = "internal"
    /\ \E n \in 4..Len(encoded), i \in KindSlotSample :
          /\ input' = SubSeq(SetKindBits(encoded, i), 1, n)
          /\ edit' = Edit(<< >>, i, << >>)
    /\ shape' = "kind"
    /\ UNCHANGED << orig, current, encoded, decoder, outcome, reencoded, pc,
                       tracer, calls >>

\* A leaf count is written before a serialized leaf or internal node.
PrefixLeafCount ==
    /\ pc = "encoded" /\ shape = "whole"
    /\ orig.type \in { "leaf", "internal" }
    /\ \E c \in CountSample :
          /\ input' = leb128_write_unsigned(FromNat(c)) \o encoded
          /\ edit' = Edit(<< >>, c, << >>)
    /\ shape' = "counted"
    /\ UNCHANGED << orig, current, encoded, decoder, outcome, reencoded, pc,
                       tracer, calls >>

\* The caller passes bytes no encoder wrote.
Feed ==
    /\ pc = "encoded" /\ shape = "whole"
    /\ input' \in CraftedSample
    /\ shape' = "crafted"
    /\ UNCHANGED << orig, current, encoded, edit, decoder, outcome, reencoded, pc,
                       tracer, calls >>

\* Values a reserved entry may carry, all well formed.
GoodValueSample(key) ==
    IF key = STR_depth THEN { << 55 >>, << 43, 48, 57 >> }
    ELSE IF key = STR_is_recovering THEN { STR_true, STR_false }
    ELSE { << 88 >>, << >> }

\* One more entry with a reserved key is written into the tag block of a
\* serialized manifest, before the first entry (n = 0) or after the last
\* (n = 1), and the tag count is raised by one.
InsertEntry ==
    /\ pc = "encoded" /\ shape = "whole"
    /\ orig.type = "manifest" /\ orig.v.tags.some
    /\ \E key \in ReservedKeys :
          \E value \in GoodValueSample(key), n \in { 0, 1 } :
             LET at == TagCountAt(encoded)
                 entry == serialize_str(serialize_str(<< >>, key), value)
                 front == SubSeq(encoded, 1, at - 1) \o << encoded[at] + 1 >>
                 back == SubSeq(encoded, at + 1, Len(encoded))
             IN /\ input' = IF n = 0 THEN front \o entry \o back
                            ELSE front \o back \o entry
                /\ edit' = Edit(key, n, value)
    /\ shape' = "inserted"
    /\ UNCHANGED << orig, current, encoded, decoder, outcome, reencoded, pc,
                       tracer, calls >>

\* Bytes a caller may leave after an encoding.
TrailSample ==
    { << 0 >>, << 255 >>, << 1, 2, 3 >>, Fill(0, 30), Fill(255, 40) }

\* The encoding is followed by other bytes.
AppendTrailing ==
    /\ pc = "encoded" /\ shape = "whole"
    /\ \E t \in TrailSample :
          /\ input' = encoded \o t
          /\ edit' = Edit(<< >>, Len(t), t)
    /\ shape' = "padded"
    /\ UNCHANGED << orig, current, encoded, decoder, outcome, reencoded, pc,
                       tracer, calls >>

\* The most entries of a tag block put together entry by entry.
MaxEntries == 3

\* Entries for such a block: three that are accepted, and one for each way an
\* entry fails (unknown key, depth that does not parse, is_recovering that
\* does not parse, value that is not UTF-8, the last two at once).
EntrySample ==
    { << STR_architecture, << 65 >> >>,
      << STR_hasher, << 104 >> >>,
      << STR_depth, << 55 >> >>,
      << << 120 >>, << 49 >> >>,
      << STR_depth, << 97 >> >>,
      << STR_is_recovering, << 49 >> >>,
      << STR_architecture, << 255 >> >>,
      << << 120 >>, << 255 >> >> }

RECURSIVE serialize_entries(_, _)
serialize_entries(entries, buffer) ==
    IF entries = << >> THEN buffer
    ELSE serialize_entries(Tail(entries),
             serialize_str(serialize_str(buffer, Head(entries)[1]), Head(entries)[2]))

\* A tag block of up to MaxEntries entries is written after the version count
\* of a manifest serialized without tags; the last cut bytes may be missing.
WriteTagBlock ==
    /\ pc = "encoded" /\ shape = "whole"
    /\ orig.type = "manifest" /\ ~orig.v.tags.some
    /\ \E n \in 0..MaxEntries :
          \E entries \in [ 1..n -> EntrySample ], cut \in { 0, 1 } :
             LET block == serialize_entries(entries,
                              encoded \o leb128_write_unsigned(FromNat(n)))
             IN /\ input' = SubSeq(block, 1, Len(block) - cut)
                /\ edit' = Edit(<< >>, cut, << >>)
    /\ shape' = "block"
    /\ UNCHANGED << orig, current, encoded, decoder, outcome, reencoded, pc,
                       tracer, calls >>

Next ==
    \/ SerializeLeaf
    \/ SerializeInternal
    \/ SerializeRoot
    \/ SerializeManifest
    \/ Truncate
    \/ DeserializeLeaf
    \/ DeserializeInternal
    \/ DeserializeRoot
    \/ DeserializeManifest
    \/ RenameTag
    \/ LowerTagCount
    \/ SetTagValue
    \/ CorruptKind
    \/ PrefixLeafCount
    \/ Feed
    \/ InsertEntry
    \/ AppendTrailing
    \/ WriteTagBlock

Spec == Init /\ [][Next]_vars

(***************************************************************************)
(* The VM drives a ValidationTracer: before every instruction and at every *)
(* bootloader hook it calls the tracer.  The codec stays idle.             *)
(***************************************************************************)
\* The most calls made to the tracer.
MaxCalls == 4

\* OP::VALUE of the instructions seen.
OpcodeSample == { Ret_Panic, "Ret(Revert)", "Nop" }

\* Gas left in the current frame.
GasSample == { 0, 1 }

HookSample ==
    { Hook_AccountValidationEntered, Hook_ValidationExited,
      "PaymasterValidationEntered", "TxHasEnded" }

Call(fn, arg, gas, self) == [fn |-> fn, arg |-> arg, gas |-> gas, self |-> self]

TracerInit ==
    /\ orig = [type |-> "root", v |-> Root_Empty]
    /\ current = orig
    /\ encoded = << >>
    /\ input = << >>
    /\ shape = "whole"
    /\ edit = NoEdit
    /\ decoder = "none"
    /\ outcome = NoOutcome
    /\ reencoded = << >>
    /\ pc = "new"
    /\ tracer = ValidationTracer_default
    /\ calls = << >>

BeforeInstruction ==
    /\ Len(calls) < MaxCalls
    /\ \E op \in OpcodeSample, gas \in GasSample :
          /\ tracer' = before_instruction(tracer, op, gas)
          /\ calls' = Append(calls, Call("before_instruction", op, gas, tracer))
    /\ UNCHANGED << orig, current, encoded, input, shape, edit, decoder, outcome,
                    reencoded, pc >>

OnBootloaderHook ==
    /\ Len(calls) < MaxCalls
    /\ \E hook \in HookSample :
          /\ tracer' = on_bootloader_hook(tracer, hook)
          /\ calls' = Append(calls, Call("on_bootloader_hook", hook, 0, tracer))
    /\ UNCHANGED << orig, current, encoded, input, shape, edit, decoder, outcome,
                    reencoded, pc >>

TracerNext ==
    \/ BeforeInstruction
    \/ OnBootloaderHook

TracerSpec == TracerInit /\ [][TracerNext]_vars

(***************************************************************************)
(* Properties.                                                             *)
(***************************************************************************)
\* The decoder `type` has run on input.
DecodedBy(type) == pc \in { "decoded", "reencoded" } /\ decoder = type

\* The decoder of orig's own type has run on the whole encoding of orig.
RoundTripped(type) == orig.type = type /\ shape = "whole" /\ DecodedBy(type)

\* The decoder of orig's own type has run on a proper prefix of the encoding.
TruncatedRun(type) == orig.type = type /\ shape = "prefix" /\ DecodedBy(type)

TruncationError == ~outcome.ok /\ outcome.kind \in { "UnexpectedEof", "Leb128" }

ByteBit(b, i) == (b \div (2 ^ i)) % 2 = 1

\* bytes is the big-endian form of the word key: bit j of the key is bit
\* j mod 8 of the byte j div 8 places before the last.
IsBigEndianOf(bytes, key) ==
    \A j \in 0..(8 * Len(bytes) - 1) :
        (j \in key) <=> ByteBit(bytes[Len(bytes) - (j \div 8)], j % 8)

\* bytes is the unsigned LEB128 form of the 64-bit word w: 7 bits a byte, the
\* least significant group first, the top bit set on all bytes but the last,
\* and no more bytes than the value needs.
IsLeb128Of(bytes, w) ==
    /\ Len(bytes) >= 1
    /\ \A i \in 1..(Len(bytes) - 1) : bytes[i] >= 128
    /\ bytes[Len(bytes)] < 128
    /\ Len(bytes) = 1 \/ bytes[Len(bytes)] # 0
    /\ \A j \in w : j < 7 * Len(bytes)
    /\ \A i \in 1..Len(bytes) : \A b \in 0..6 :
          ByteBit(bytes[i], b) <=> (7 * (i - 1) + b) \in w

\* C1: a leaf serialized into an empty buffer is KEY_SIZE big-endian key
\* bytes, then the HASH_SIZE hash bytes, then the LEB128 of leaf_index, and
\* decoding these bytes returns the leaf, equal in all three fields.
C1_LeafRoundTrip ==
    /\ (orig.type = "leaf" /\ pc # "new") =>
          /\ Len(encoded) > KEY_SIZE + HASH_SIZE
          /\ IsBigEndianOf(SubSeq(encoded, 1, KEY_SIZE), orig.v.full_key)
          /\ SubSeq(encoded, KEY_SIZE + 1, KEY_SIZE + HASH_SIZE) = orig.v.value_hash
          /\ IsLeb128Of(SubSeq(encoded, KEY_SIZE + HASH_SIZE + 1, Len(encoded)),
                        orig.v.leaf_index)
    /\ RoundTripped("leaf") =>
          /\ outcome.ok
          /\ outcome.val.full_key = orig.v.full_key
          /\ outcome.val.value_hash = orig.v.value_hash
          /\ outcome.val.leaf_index = orig.v.leaf_index

C1_Witness ==
    /\ RoundTripped("leaf")
    /\ outcome.ok
    /\ orig.v.full_key = 0..255
    /\ orig.v.leaf_index = U64_MAX

\* The length of the wire form of a child reference.
BodyLen(ref) == HASH_SIZE + Len(leb128_write_unsigned(ref.version))

RECURSIVE SumBodyLen(_, _)
SumBodyLen(refs, slots) ==
    IF slots = {} THEN 0
    ELSE LET s == CHOOSE t \in slots : TRUE
         IN BodyLen(refs[s]) + SumBodyLen(refs, slots \ {s})

\* Where the body of slot s starts when the bodies follow the 4-byte bitmap
\* in ascending slot order.
BodyOffset(refs, s) == 4 + SumBodyLen(refs, { t \in DOMAIN refs : t < s })

\* C2: decoding the bytes of an internal node with 1 to 16 children returns
\* the same occupied slots with the same hash, version and is_leaf at each,
\* and on the wire the bodies follow the bitmap in ascending slot order.
C2_InternalRoundTrip ==
    /\ (orig.type = "internal" /\ pc = "encoded" /\ shape = "whole") =>
          \A s \in DOMAIN orig.v.children :
              LET ref == orig.v.children[s]
                  at == BodyOffset(orig.v.children, s)
              IN /\ SubSeq(encoded, at + 1, at + HASH_SIZE) = ref.hash
                 /\ IsLeb128Of(SubSeq(encoded, at + HASH_SIZE + 1, at + BodyLen(ref)),
                               ref.version)
    /\ RoundTripped("internal") =>
          /\ outcome.ok
          /\ DOMAIN outcome.val.children = DOMAIN orig.v.children
          /\ \A s \in DOMAIN orig.v.children :
                /\ outcome.val.children[s].hash = orig.v.children[s].hash
                /\ outcome.val.children[s].version = orig.v.children[s].version
                /\ outcome.val.children[s].is_leaf = orig.v.children[s].is_leaf

C2_Witness ==
    /\ RoundTripped("internal")
    /\ outcome.ok
    /\ Cardinality(DOMAIN orig.v.children) = CHILD_COUNT

IsFilled(root) == root.tag = "Filled"

HoldsLeaf(root) == IsFilled(root) /\ root.node.tag = "Leaf"

HoldsInternal(root) == IsFilled(root) /\ root.node.tag = "Internal"

ChildCountOf(root) == Cardinality(DOMAIN root.node.node.children)

\* A root with leaf_count = 1 whose internal node has two or more children:
\* its node bytes are at least KEY_SIZE + HASH_SIZE long, so the leaf attempt
\* of Root::deserialize can succeed on them.
Ambiguous(root) ==
    HoldsInternal(root) /\ root.leaf_count = FromNat(1) /\ ChildCountOf(root) >= 2

\* C3 as stated: every root the data model allows, for every combination of
\* leaf_count and node variant, decodes to a root equal to the original.
C3_AsStated == RoundTripped("root") => outcome = Ok(orig.v)

\* A root holding a leaf with leaf_count >= 2: Root::deserialize hands its
\* node bytes to the internal-node decoder alone.
MisfiledLeaf(root) == HoldsLeaf(root) /\ root.leaf_count # FromNat(1)

\* C3, amended: Empty, a root with leaf_count = 1 holding a leaf, and a root
\* holding an internal node with leaf_count >= 2 or with exactly one child
\* decode to a root equal to the original.  A root with leaf_count = 1 holding
\* an internal node with two or more children decodes to the original or to a
\* root holding a leaf made of the first bytes of the node; a root holding a
\* leaf with leaf_count >= 2 never decodes to a root holding a leaf.
C3_RootRoundTrip ==
    RoundTripped("root") =>
        /\ (~Ambiguous(orig.v) /\ ~MisfiledLeaf(orig.v)) => outcome = Ok(orig.v)
        /\ Ambiguous(orig.v) =>
              outcome.ok /\ (outcome.val = orig.v \/ HoldsLeaf(outcome.val))
        /\ MisfiledLeaf(orig.v) => (outcome.ok => HoldsInternal(outcome.val))

C3_Witness ==
    /\ RoundTripped("root")
    /\ HoldsInternal(orig.v)
    /\ orig.v.leaf_count = FromNat(2)
    /\ ChildCountOf(orig.v) = 2
    /\ outcome = Ok(orig.v)

\* C4: with leaf_count = 1, the encoding of an internal node with exactly one
\* child is strictly shorter than KEY_SIZE + HASH_SIZE bytes, the leaf decoder
\* rejects it, and the root decodes to the original root with the internal
\* node; a root with leaf_count = 1 holding a leaf decodes to the original.
C4_RootFallback ==
    /\ (orig.type = "internal" /\ Cardinality(DOMAIN orig.v.children) = 1 /\ pc # "new") =>
          /\ Len(encoded) < KEY_SIZE + HASH_SIZE
          /\ (shape = "whole" /\ DecodedBy("leaf")) => ~outcome.ok
    /\ (RoundTripped("root") /\ IsFilled(orig.v) /\ orig.v.leaf_count = FromNat(1)) =>
          /\ (HoldsInternal(orig.v) /\ ChildCountOf(orig.v) = 1) =>
                /\ Len(encoded) - 1 < KEY_SIZE + HASH_SIZE
                /\ outcome.ok
                /\ outcome.val.leaf_count = FromNat(1)
                /\ outcome.val.node = Node_Internal(orig.v.node.node)
          /\ HoldsLeaf(orig.v) =>
                /\ outcome.ok
                /\ outcome.val.leaf_count = FromNat(1)
                /\ outcome.val.node = Node_Leaf(orig.v.node.node)

C4_Witness ==
    /\ RoundTripped("root")
    /\ HoldsInternal(orig.v)
    /\ orig.v.leaf_count = FromNat(1)
    /\ ChildCountOf(orig.v) = 1
    /\ \E s \in DOMAIN orig.v.node.node.children :
          orig.v.node.node.children[s].version = U64_MAX
    /\ outcome.ok

HasTags(m) == m.tags.some

\* C5: decoding the bytes of a manifest returns a manifest equal to it: same
\* version_count, same presence of tags, same architecture, hasher, depth and
\* is_recovering, and exactly the same custom key/value pairs, also when a
\* custom key is a reserved name or starts with `custom.`.
C5_ManifestRoundTrip ==
    RoundTripped("manifest") =>
        /\ outcome.ok
        /\ outcome.val.version_count = orig.v.version_count
        /\ HasTags(outcome.val) = HasTags(orig.v)
        /\ HasTags(orig.v) =>
              LET got == outcome.val.tags.val
                  want == orig.v.tags.val
              IN /\ got.architecture = want.architecture
                 /\ got.hasher = want.hasher
                 /\ got.depth = want.depth
                 /\ got.is_recovering = want.is_recovering
                 /\ DOMAIN got.custom = DOMAIN want.custom
                 /\ \A k \in DOMAIN want.custom : got.custom[k] = want.custom[k]

C5_Witness ==
    /\ RoundTripped("manifest")
    /\ outcome.ok
    /\ HasTags(orig.v)
    /\ orig.v.tags.val.is_recovering
    /\ DOMAIN orig.v.tags.val.custom = { STR_depth, STR_custom_prefix \o << 120 >> }

\* A decoded value was serialized again, after a round trip of orig.
Reencoded == pc = "reencoded" /\ shape = "whole" /\ decoder = orig.type

\* C6 as stated: for all four entity types, manifests with two or more
\* custom tags included, serializing the decoded value yields exactly the
\* bytes first written.
C6_AsStated == Reencoded => reencoded = encoded

ManyCustom(val) == Cardinality(CustomKeys(val)) >= 2

\* C6, amended: re-encoding is byte-identical for every leaf, every internal
\* node, every root that decodes to itself (C3) and every manifest with at most
\* one custom tag.  For a manifest with two or more custom tags the re-encoding
\* has the same length and is one of the encodings of the manifest, the custom
\* entries in some order, not always the order first written.
C6_Reencoding ==
    Reencoded =>
        /\ orig.type \in { "leaf", "internal" } => reencoded = encoded
        /\ (orig.type = "root" /\ ~Ambiguous(orig.v) /\ ~MisfiledLeaf(orig.v)) =>
              reencoded = encoded
        /\ (orig.type = "manifest" /\ ~ManyCustom(orig)) => reencoded = encoded
        /\ (orig.type = "manifest" /\ ManyCustom(orig)) =>
              /\ Len(reencoded) = Len(encoded)
              /\ \E order \in Orders(CustomKeys(orig)) :
                    reencoded = Manifest_serialize(orig.v, order, << >>)

C6_Witness ==
    /\ Reencoded
    /\ orig.type = "manifest"
    /\ Cardinality(CustomKeys(orig)) = 1
    /\ reencoded = encoded

\* C7: LeafNode::deserialize on a proper prefix of the encoding of a leaf, and
\* InternalNode::deserialize on a proper prefix of the encoding of an internal
\* node, return an error of kind UnexpectedEof or Leb128, never a node.
C7_TruncatedLeafInternal ==
    (TruncatedRun("leaf") \/ TruncatedRun("internal")) => TruncationError

C7_Witness ==
    /\ TruncatedRun("internal")
    /\ Len(input) > 4 + HASH_SIZE
    /\ ~outcome.ok
    /\ outcome.kind = "Leb128"

\* C8 as stated: Root::deserialize on a proper prefix of the encoding of any
\* root returns an error of kind UnexpectedEof or Leb128.
C8_AsStated == TruncatedRun("root") => TruncationError

\* C8, amended: a proper prefix of the encoding of Empty, or of a root holding
\* an internal node with leaf_count >= 2 or with exactly one child, returns an
\* error of kind UnexpectedEof or Leb128.  A proper prefix of a root holding a
\* leaf is never decoded as a root holding a leaf, but its bytes go to the
\* internal-node decoder, whose result is returned: any of its errors, or a
\* root holding an internal node.  A proper prefix of a root with
\* leaf_count = 1 holding an internal node with two or more children returns
\* UnexpectedEof or Leb128 or a root holding a leaf.
C8_TruncatedRoot ==
    TruncatedRun("root") =>
        /\ (~HoldsLeaf(orig.v) /\ ~Ambiguous(orig.v)) => TruncationError
        /\ HoldsLeaf(orig.v) => (outcome.ok => HoldsInternal(outcome.val))
        /\ Ambiguous(orig.v) =>
              IF outcome.ok THEN HoldsLeaf(outcome.val) ELSE TruncationError

C8_Witness ==
    /\ TruncatedRun("root")
    /\ HoldsLeaf(orig.v)
    /\ orig.v.leaf_count = FromNat(1)
    /\ outcome.ok
    /\ HoldsInternal(outcome.val)

\* C9 as stated: Manifest::deserialize on any proper prefix of the encoding of
\* a manifest with tags returns an error (UnexpectedEof or Leb128).
C9_AsStated == (TruncatedRun("manifest") /\ HasTags(orig.v)) => TruncationError

\* The last string written is not empty: there is no custom tag, and
\* is_recovering is written or the hasher is not empty.
EndsInsideString(m) ==
    /\ DOMAIN m.tags.val.custom = {}
    /\ m.tags.val.is_recovering \/ m.tags.val.hasher # << >>

\* C9, amended: on a proper prefix of the encoding of a manifest with tags,
\* Manifest::deserialize returns an error of kind UnexpectedEof or Leb128
\* (UnexpectedEof when the cut falls inside the last string), except on the
\* prefix that is exactly the LEB128 version_count, which it accepts as a
\* manifest without tags.
C9_TruncatedManifest ==
    (TruncatedRun("manifest") /\ HasTags(orig.v)) =>
        /\ IF IsLeb128Of(input, orig.v.version_count)
           THEN outcome = Ok(Manifest(orig.v.version_count, None))
           ELSE TruncationError
        /\ (EndsInsideString(orig.v) /\ Len(input) = Len(encoded) - 1) =>
              outcome.kind = "UnexpectedEof"

C9_Witness ==
    /\ TruncatedRun("manifest")
    /\ HasTags(orig.v)
    /\ DOMAIN orig.v.tags.val.custom # {}
    /\ Len(input) = Len(encoded) - 1
    /\ ~outcome.ok
    /\ outcome.kind = "UnexpectedEof"

ZeroBitmap(bytes) == Len(bytes) >= 4 /\ \A i \in 1..4 : bytes[i] = 0

\* C10: InternalNode::deserialize returns EmptyInternalNode on every input of
\* at least 4 bytes whose first four bytes are zero, whatever follows, and no
\* decoded internal node, alone or in a root, has zero children.
C10_EmptyInternalRejected ==
    /\ (DecodedBy("internal") /\ ZeroBitmap(input)) =>
          outcome = ErrKind("EmptyInternalNode")
    /\ (DecodedBy("internal") /\ outcome.ok) => DOMAIN outcome.val.children # {}
    /\ (DecodedBy("root") /\ outcome.ok /\ HoldsInternal(outcome.val)) =>
          ChildCountOf(outcome.val) >= 1

C10_Witness ==
    /\ DecodedBy("internal")
    /\ ZeroBitmap(input)
    /\ Len(input) > KEY_SIZE + HASH_SIZE
    /\ input[KEY_SIZE + 1] = 200
    /\ outcome = ErrKind("EmptyInternalNode")

\* The two kind bits of slot i in the little-endian bitmap of bytes.
KindBitsAt(bytes, i) == (bytes[1 + ((2 * i) \div 8)] \div (2 ^ ((2 * i) % 8))) % 4

InvalidKindSlots(bytes) ==
    { i \in 0..(CHILD_COUNT - 1) : KindBitsAt(bytes, i) = MASK }

OccupiedKindSlots(bytes) ==
    { i \in 0..(CHILD_COUNT - 1) : KindBitsAt(bytes, i) \in { ChildKind_Internal, ChildKind_Leaf } }

HasInvalidKind(bytes) == Len(bytes) >= 4 /\ InvalidKindSlots(bytes) # {}

\* C11 as stated: whenever some slot of the bitmap holds 11,
\* InternalNode::deserialize returns InvalidChildKind, whatever bytes follow.
C11_AsStated ==
    (DecodedBy("internal") /\ HasInvalidKind(input)) =>
        (~outcome.ok /\ outcome.kind = "InvalidChildKind")

\* C11: on an input whose bitmap holds 11 in some slot, InternalNode::deserialize
\* never returns a node; it returns InvalidChildKind when no slot below the
\* lowest such slot is occupied, and otherwise InvalidChildKind, UnexpectedEof
\* or Leb128.  On the first n bytes of a serialized node with slot i set to 11
\* it returns InvalidChildKind exactly when the n bytes hold the bodies of all
\* occupied slots below i, and UnexpectedEof or Leb128 when they do not.
C11_InvalidChildKind ==
    /\ (DecodedBy("internal") /\ HasInvalidKind(input)) =>
          /\ ~outcome.ok
          /\ outcome.kind \in { "InvalidChildKind", "UnexpectedEof", "Leb128" }
          /\ (\A i \in InvalidKindSlots(input) :
                \A j \in OccupiedKindSlots(input) : i < j)
                => outcome.kind = "InvalidChildKind"
    /\ (DecodedBy("internal") /\ shape = "kind") =>
          /\ edit.n \in InvalidKindSlots(input)
          /\ (outcome.kind = "InvalidChildKind")
                <=> (Len(input) >= BodyOffset(orig.v.children, edit.n))

\* A node cut after the body of slot 0, slot 11 set to 11: the child of slot 0
\* is read, then the kind of slot 11 is rejected.
C11_Witness ==
    /\ DecodedBy("internal") /\ shape = "kind"
    /\ edit.n = 11
    /\ 0 \in DOMAIN orig.v.children
    /\ Len(input) < Len(encoded)
    /\ Len(input) >= BodyOffset(orig.v.children, 11)
    /\ outcome = ErrKind("InvalidChildKind")

\* A key that TreeTags::deserialize matches neither by name nor by prefix.
IsForeignKey(key) == key \notin ReservedKeys /\ ~has_prefix(key, STR_custom_prefix)

\* C12: when the key of one reserved entry of a serialized manifest is
\* overwritten by a key of the same length that is neither reserved nor
\* prefixed with `custom.`, Manifest::deserialize returns UnknownTag carrying
\* exactly the new key.
C12_UnknownTag ==
    (DecodedBy("manifest") /\ shape = "renamed" /\ IsForeignKey(edit.bytes)) =>
        /\ Len(edit.bytes) = Len(edit.key)
        /\ Len(input) = Len(encoded)
        /\ outcome = Err("UnknownTag", "None", edit.bytes, "None")

\* The fourth entry, is_recovering, renamed to Is_recovering in a manifest
\* that also carries custom tags.
C12_Witness ==
    /\ DecodedBy("manifest") /\ shape = "renamed"
    /\ edit.key = STR_is_recovering
    /\ edit.n = 4
    /\ edit.bytes = [STR_is_recovering EXCEPT ![1] = 73]
    /\ DOMAIN orig.v.tags.val.custom # {}
    /\ ~outcome.ok
    /\ outcome.kind = "UnknownTag"
    /\ outcome.name = edit.bytes

\* The tag block of a manifest buffer as laid out on the wire: the written
\* entry count and the entries that follow it, read until the bytes end.
BlockOfTags(version_count) ==
    IF ~version_count.ok \/ version_count.rest = << >> THEN [ok |-> FALSE]
    ELSE LET tag_count == leb128_read_unsigned(version_count.rest) IN
         IF ~tag_count.ok THEN [ok |-> FALSE]
         ELSE [ok |-> TRUE, count |-> tag_count.val,
               entries |-> ReadEntries(tag_count.rest, 1)]

BlockOf(bytes) == BlockOfTags(leb128_read_unsigned(bytes))

\* An entry the tag decoder accepts: a reserved key with a value of its type,
\* or a key prefixed with `custom.`.
EntryAccepted(e) ==
    /\ e.ok
    /\ \/ e.key \in { STR_architecture, STR_hasher }
       \/ e.key = STR_depth /\ parse_usize(e.value).ok
       \/ e.key = STR_is_recovering /\ parse_bool(e.value).ok
       \/ e.key \notin ReservedKeys /\ has_prefix(e.key, STR_custom_prefix)

\* The buffer holds a tag block whose entry_count entries are all accepted.
AllCountedAccepted(b) ==
    /\ b.ok
    /\ ~NatLessWord(Len(b.entries), b.count)
    /\ \A k \in 1..ToNat(b.count) : EntryAccepted(b.entries[k])

CountedKeys(b) == { b.entries[k].key : k \in 1..ToNat(b.count) }

RequiredKeys == << STR_architecture, STR_hasher, STR_depth >>

\* The first required key, in the order architecture, hasher, depth, that is
\* not among keys.
FirstAbsent(keys) ==
    RequiredKeys[CHOOSE i \in 1..3 :
        /\ RequiredKeys[i] \notin keys
        /\ \A j \in 1..(i - 1) : RequiredKeys[j] \in keys]

\* C13: when the entry_count entries of a tag block are all accepted and a
\* required key (architecture, hasher, depth) is not among them, the decoder
\* returns MissingTag naming an absent required key (the first absent one in
\* the order architecture, hasher, depth), and it returns a manifest when all
\* three are there; with entry_count lowered to 2 the error is
\* MissingTag(hasher) and the bytes of the dropped entries stay unread.
C13_MissingTag ==
    /\ (DecodedBy("manifest") /\ AllCountedAccepted(BlockOf(input))) =>
          IF \A i \in 1..3 : RequiredKeys[i] \in CountedKeys(BlockOf(input))
          THEN outcome.ok
          ELSE outcome = Err("MissingTag", "None",
                             FirstAbsent(CountedKeys(BlockOf(input))), "None")
    /\ (DecodedBy("manifest") /\ shape = "count") =>
          /\ AllCountedAccepted(BlockOf(input))
          /\ Len(input) = Len(encoded)
          /\ edit.n = 2 => outcome = Err("MissingTag", "None", STR_hasher, "None")

\* The default manifest (architecture, depth, hasher) with entry_count
\* lowered from 3 to 2.
C13_Witness ==
    /\ DecodedBy("manifest") /\ shape = "count"
    /\ orig.v.tags.val = TreeTags(STR_AR16MT, STR_no_op256, 256, FALSE, HashMap_new)
    /\ encoded[TagCountAt(encoded)] = 3
    /\ edit.n = 2
    /\ Len(BlockOf(input).entries) = 3
    /\ outcome = Err("MissingTag", "None", STR_hasher, "None")

\* s is the decimal form of n: digits only, no leading zero, of value n.
IsDecimalOf(s, n) ==
    /\ Len(s) >= 1
    /\ \A i \in 1..Len(s) : IsDigit(s[i])
    /\ Len(s) = 1 \/ s[1] # 48
    /\ DigitsValue(s, 0) = n

EntryIs(e, key, value) == e.ok /\ e.key = key /\ e.value = value

\* b is the tag block TreeTags::serialize is to write for the tags t.
TagLayout(b, t) ==
    LET flag == IF t.is_recovering THEN 1 ELSE 0
        n == 3 + flag + Cardinality(DOMAIN t.custom)
    IN /\ b.ok
       /\ b.count = FromNat(n)
       /\ Len(b.entries) = n
       /\ EntryIs(b.entries[1], STR_architecture, t.architecture)
       /\ b.entries[2].ok /\ b.entries[2].key = STR_depth
       /\ IsDecimalOf(b.entries[2].value, t.depth)
       /\ EntryIs(b.entries[3], STR_hasher, t.hasher)
       /\ t.is_recovering => EntryIs(b.entries[4], STR_is_recovering, STR_true)
       /\ ~t.is_recovering =>
             \A k \in 1..n : b.entries[k].key # STR_is_recovering
       /\ \A k \in (4 + flag)..n :
             /\ b.entries[k].ok
             /\ has_prefix(b.entries[k].key, STR_custom_prefix)
             /\ strip_prefix(b.entries[k].key, STR_custom_prefix) \in DOMAIN t.custom
             /\ b.entries[k].value =
                    t.custom[strip_prefix(b.entries[k].key, STR_custom_prefix)]
       /\ \A c \in DOMAIN t.custom :
             \E k \in (4 + flag)..n : b.entries[k].key = STR_custom_prefix \o c

\* C14: TreeTags::serialize writes entry_count = 3 + (1 if is_recovering) +
\* custom.len(), then architecture, depth in decimal, hasher, then
\* is_recovering = true only when the flag is set (no such entry otherwise),
\* then one entry `custom.` + key per custom pair; the entries in the buffer
\* are as many as the written count.  Checked on the first serialization and
\* on the serialization of every decoded manifest.
C14_TagLayout ==
    /\ (orig.type = "manifest" /\ orig.v.tags.some /\ pc # "new") =>
          TagLayout(BlockOf(encoded), orig.v.tags.val)
    /\ (pc = "reencoded" /\ current.type = "manifest" /\ current.v.tags.some) =>
          TagLayout(BlockOf(reencoded), current.v.tags.val)

\* A recovering manifest with two custom tags: six entries, count 6.
C14_Witness ==
    /\ orig.type = "manifest" /\ orig.v.tags.some /\ pc = "encoded"
    /\ orig.v.tags.val.is_recovering
    /\ Cardinality(DOMAIN orig.v.tags.val.custom) = 2
    /\ encoded[TagCountAt(encoded)] = 6
    /\ Len(BlockOf(encoded).entries) = 6
    /\ BlockOf(encoded).entries[4].value = STR_true

\* The number of set bits among the first four bytes.
PopCount4(bytes) ==
    Cardinality({ p \in (1..4) \X (0..7) : ByteBit(bytes[p[1]], p[2]) })

\* C15: when InternalNode::deserialize returns a node, the node has as many
\* children as the 32-bit bitmap in the first four bytes has set bits, and its
\* occupied slots are exactly the slots whose two bitmap bits are not 00.
C15_BitmapPopcount ==
    (DecodedBy("internal") /\ outcome.ok) =>
        /\ Len(input) >= 4
        /\ Cardinality(DOMAIN outcome.val.children) = PopCount4(input)
        /\ DOMAIN outcome.val.children =
              { i \in 0..(CHILD_COUNT - 1) : KindBitsAt(input, i) # ChildKind_None }

\* The bytes of a leaf whose key starts with 0x01, read as an internal node
\* with one child at slot 0.
C15_Witness ==
    /\ DecodedBy("internal") /\ outcome.ok
    /\ orig.type = "leaf" /\ shape = "whole"
    /\ PopCount4(input) = 1
    /\ DOMAIN outcome.val.children = { 0 }

\* The first four bytes hold, at bits 2i and 2i+1, 01 for a child with
\* is_leaf = false at slot i, 10 for one with is_leaf = true, 00 for none.
KindBitsOf(bytes, node) ==
    /\ Len(bytes) >= 4
    /\ \A i \in 0..(CHILD_COUNT - 1) :
          KindBitsAt(bytes, i) =
              IF i \notin DOMAIN node.children THEN 0
              ELSE IF node.children[i].is_leaf THEN 2 ELSE 1

\* C16: the bitmap InternalNode::serialize writes (4 bytes, little-endian)
\* holds at bits 2i and 2i+1 the value 01 for a child with is_leaf = false at
\* slot i, 10 for a child with is_leaf = true, 00 for an empty slot and never
\* 11; and a decoded node has at slot i is_leaf = true exactly when the two
\* bits read 10.
C16_ChildKindBits ==
    /\ (orig.type = "internal" /\ pc # "new") => KindBitsOf(encoded, orig.v)
    /\ (pc = "reencoded" /\ current.type = "internal") =>
          KindBitsOf(reencoded, current.v)
    /\ (DecodedBy("internal") /\ outcome.ok) =>
          \A i \in DOMAIN outcome.val.children :
              outcome.val.children[i].is_leaf <=> (KindBitsAt(input, i) = 2)

\* A node with an internal child at slot 0 and a leaf child at slot 11,
\* serialized and decoded.
C16_Witness ==
    /\ RoundTripped("internal") /\ outcome.ok
    /\ DOMAIN orig.v.children = { 0, 11 }
    /\ ~orig.v.children[0].is_leaf
    /\ orig.v.children[11].is_leaf
    /\ SubSeq(encoded, 1, 4) = << 1, 0, 128, 0 >>
    /\ outcome.val.children[11].is_leaf

\* The kinds of DeserializeErrorKind.
ErrorKinds ==
    { "UnexpectedEof", "Leb128", "Utf8", "InvalidChildKind", "EmptyInternalNode",
      "MalformedTag", "MissingTag", "UnknownTag" }

IsLeafValue(v) == DOMAIN v = { "full_key", "value_hash", "leaf_index" }

IsInternalValue(v) == DOMAIN v = { "children" }

IsRootValue(v) ==
    \/ v = Root_Empty
    \/ /\ DOMAIN v = { "tag", "leaf_count", "node" }
       /\ v.tag = "Filled"
       /\ v.leaf_count # {}
       /\ \/ v.node.tag = "Leaf" /\ IsLeafValue(v.node.node)
          \/ v.node.tag = "Internal" /\ IsInternalValue(v.node.node)

IsManifestValue(v) == DOMAIN v = { "version_count", "tags" }

\* The fewest bytes an encoding of the decoded value takes: what was decoded
\* was read from the input.
LeastLen(type, v) ==
    IF type = "leaf" THEN KEY_SIZE + HASH_SIZE + 1
    ELSE IF type = "internal"
    THEN 4 + (HASH_SIZE + 1) * Cardinality(DOMAIN v.children)
    ELSE IF type = "root"
    THEN IF v = Root_Empty THEN 1
         ELSE IF v.node.tag = "Leaf" THEN 1 + KEY_SIZE + HASH_SIZE + 1
         ELSE 1 + 4 + (HASH_SIZE + 1) * Cardinality(DOMAIN v.node.node.children)
    ELSE IF v.tags.some
    THEN 2 + 6 + Len(STR_architecture) + Len(v.tags.val.architecture)
           + Len(STR_hasher) + Len(v.tags.val.hasher) + Len(STR_depth) + 1
    ELSE 1

\* C17: on every byte string handed to it (encodings, their prefixes, changed
\* buffers, bytes no encoder wrote, over-long LEB128 integers, string lengths
\* beyond the input) each of the four decoders returns a value of its type,
\* made of bytes of the input, or an error of one of the kinds of
\* DeserializeErrorKind; none panics.
C17_DecodersTotal ==
    DecodedBy(decoder) =>
        IF outcome.ok
        THEN /\ decoder = "leaf" => IsLeafValue(outcome.val)
             /\ decoder = "internal" => IsInternalValue(outcome.val)
             /\ decoder = "root" => IsRootValue(outcome.val)
             /\ decoder = "manifest" => IsManifestValue(outcome.val)
             /\ Len(input) >= LeastLen(decoder, outcome.val)
        ELSE outcome.kind \in ErrorKinds

\* A manifest whose first key announces 2^64 - 1 bytes, one byte following.
C17_Witness ==
    /\ DecodedBy("manifest") /\ shape = "crafted"
    /\ input = << 42, 1 >> \o Fill(255, 9) \o << 1, 97 >>
    /\ outcome = ErrKind("UnexpectedEof")

\* The leading LEB128 integer of the input is read and is the word w.
LeadsWith(bytes, w) ==
    leb128_read_unsigned(bytes).ok /\ leb128_read_unsigned(bytes).val = w

\* The bytes after the leading LEB128 integer.
AfterCount(bytes) == leb128_read_unsigned(bytes).rest

\* What Root::deserialize is to return when only the internal-node decoder is
\* applied to the bytes after the leaf count.
AsInternalRoot(leaf_count, node) ==
    IF node.ok THEN Ok(Root_new(leaf_count, Node_Internal(node.val))) ELSE node

\* C18: when the leading leaf_count is 0, Root::deserialize returns Empty
\* whatever bytes follow; when it is 2 or more, the result is the result of
\* InternalNode::deserialize on the remaining bytes (a Filled root holding an
\* Internal node with that leaf_count, or that decoder's error) and never
\* holds a Leaf, also when the remaining bytes parse as a leaf.
C18_RootDispatch ==
    /\ (DecodedBy("root") /\ LeadsWith(input, FromNat(0))) =>
          outcome = Ok(Root_Empty)
    /\ (DecodedBy("root") /\ leb128_read_unsigned(input).ok
          /\ ~LeadsWith(input, FromNat(0)) /\ ~LeadsWith(input, FromNat(1))) =>
          /\ outcome = AsInternalRoot(leb128_read_unsigned(input).val,
                                      InternalNode_deserialize(AfterCount(input)))
          /\ outcome.ok => HoldsInternal(outcome.val)
    /\ (DecodedBy("root") /\ shape = "counted" /\ edit.n = 0) =>
          /\ Len(input) > 1
          /\ outcome = Ok(Root_Empty)
    /\ (DecodedBy("root") /\ shape = "counted" /\ edit.n >= 2
          /\ orig.type = "internal") =>
          outcome = Ok(Root_new(FromNat(edit.n), Node_Internal(orig.v)))
    /\ (DecodedBy("root") /\ shape = "counted" /\ edit.n >= 2
          /\ orig.type = "leaf") =>
          /\ LeafNode_deserialize(AfterCount(input)).ok
          /\ outcome.ok => HoldsInternal(outcome.val)

\* Leaf count 2 before the bytes of a leaf whose key starts with 0x01: the
\* bytes parse as a leaf, and the root returned holds an internal node.
C18_Witness ==
    /\ DecodedBy("root") /\ shape = "counted"
    /\ edit.n = 2
    /\ orig.type = "leaf"
    /\ LeafNode_deserialize(AfterCount(input)) = Ok(orig.v)
    /\ outcome.ok
    /\ outcome.val.leaf_count = FromNat(2)
    /\ HoldsInternal(outcome.val)

\* What Root::deserialize is to return for leaf_count = 1 from the results of
\* the two node decoders on the same bytes.
LeafThenInternal(leaf, node) ==
    IF leaf.ok THEN Ok(Root_new(FromNat(1), Node_Leaf(leaf.val)))
    ELSE AsInternalRoot(FromNat(1), node)

\* C19: with leaf_count = 1 the bytes after the count are decoded as a leaf
\* and, when that succeeds, the root holds the Leaf even if the same bytes
\* also decode as an internal node; only when the leaf attempt fails is the
\* result that of the internal-node decoder on the same bytes, its error (not
\* the leaf decoder's) when both fail.  No other decoder retries: the leaf and
\* internal-node decoders return only their own type, a leaf decoder fails on
\* fewer than KEY_SIZE + HASH_SIZE bytes, and a manifest without tags is
\* returned only when no byte follows the version count.
C19_RootDecodeOrder ==
    /\ (DecodedBy("root") /\ LeadsWith(input, FromNat(1))) =>
          /\ outcome = LeafThenInternal(LeafNode_deserialize(AfterCount(input)),
                                        InternalNode_deserialize(AfterCount(input)))
          /\ LeafNode_deserialize(AfterCount(input)).ok =>
                (outcome.ok /\ HoldsLeaf(outcome.val))
          /\ ~outcome.ok => outcome = InternalNode_deserialize(AfterCount(input))
    /\ (DecodedBy("leaf") /\ outcome.ok) => IsLeafValue(outcome.val)
    /\ (DecodedBy("leaf") /\ Len(input) < KEY_SIZE + HASH_SIZE) =>
          outcome = ErrKind("UnexpectedEof")
    /\ (DecodedBy("internal") /\ outcome.ok) => IsInternalValue(outcome.val)
    /\ (DecodedBy("manifest") /\ outcome.ok /\ ~outcome.val.tags.some) =>
          AfterCount(input) = << >>

\* A cut encoding of Filled{1, Leaf} with key 513: the leaf attempt fails for
\* lack of bytes, the internal-node attempt on a zero bitmap, and the error
\* returned is the second.
C19_Witness ==
    /\ DecodedBy("root") /\ LeadsWith(input, FromNat(1))
    /\ LeafNode_deserialize(AfterCount(input)) = ErrKind("UnexpectedEof")
    /\ InternalNode_deserialize(AfterCount(input)) = ErrKind("EmptyInternalNode")
    /\ outcome = ErrKind("EmptyInternalNode")

\* One or more decimal digits whose value fits a 64-bit usize.
IsDecimalUnsigned(value) ==
    /\ value # << >>
    /\ \A i \in 1..Len(value) : IsDigit(value[i])
    /\ ~OverflowsUsize(value)

\* A decimal unsigned integer, or one after a single `+`.
IsDecimalWithPlus(value) ==
    \/ IsDecimalUnsigned(value)
    \/ value # << >> /\ value[1] = 43 /\ IsDecimalUnsigned(Tail(value))

IsMalformed(name) ==
    ~outcome.ok /\ outcome.kind = "MalformedTag" /\ outcome.name = name

ValueSet(key) ==
    DecodedBy("manifest") /\ shape = "value" /\ edit.key = key /\ Utf8Valid(edit.bytes)

\* C20 as stated: a depth value that is not a decimal unsigned integer fitting
\* usize gives MalformedTag(depth), an is_recovering value that is neither
\* true nor false gives MalformedTag(is_recovering).
C20_AsStated ==
    /\ (ValueSet(STR_depth) /\ ~IsDecimalUnsigned(edit.bytes)) =>
          IsMalformed(STR_depth)
    /\ (ValueSet(STR_is_recovering) /\ edit.bytes \notin { STR_true, STR_false }) =>
          IsMalformed(STR_is_recovering)

\* C20: a depth entry whose value is a string other than decimal digits of a
\* value that fits usize, optionally after one `+`, makes the decoder return
\* MalformedTag with name depth (also when the digits overflow usize), and an
\* is_recovering entry whose value is a string other than true or false
\* returns MalformedTag with name is_recovering; no TreeTags value results.
\* The values the parsers accept are decoded, `+256` as depth 256.
C20_MalformedTag ==
    /\ ValueSet(STR_depth) =>
          IF IsDecimalWithPlus(edit.bytes)
          THEN outcome.ok
               /\ outcome.val.tags.val.depth =
                      DigitsValue(IF edit.bytes[1] = 43 THEN Tail(edit.bytes)
                                  ELSE edit.bytes, 0)
          ELSE IsMalformed(STR_depth)
    /\ ValueSet(STR_is_recovering) =>
          IF edit.bytes \in { STR_true, STR_false }
          THEN outcome.ok
               /\ outcome.val.tags.val.is_recovering = (edit.bytes = STR_true)
          ELSE IsMalformed(STR_is_recovering)
    /\ (DecodedBy("manifest") /\ shape = "value" /\ ~Utf8Valid(edit.bytes)) =>
          (~outcome.ok /\ outcome.kind = "Utf8")

\* The depth value 18446744073709551616 = 2^64.
C20_Witness ==
    /\ ValueSet(STR_depth)
    /\ edit.bytes = [USIZE_MAX_DIGITS EXCEPT ![20] = 54]
    /\ outcome = Err("MalformedTag", "None", STR_depth, "PosOverflow")


\* ---------------------------------------------------------------------
\* Repeated reserved keys

\* The places among the entry_count entries of block b where key occurs.
Occurrences(b, key) ==
    { k \in 1..ToNat(b.count) : b.entries[k].key = key }

Max(S) == CHOOSE k \in S : \A j \in S : j <= k

\* The value of the last entry of block b, in wire order, whose key is key.
LastValue(b, key) == b.entries[Max(Occurrences(b, key))].value

\* The number a depth value the decoder accepts stands for.
DepthOf(value) ==
    DigitsValue(IF value[1] = 43 THEN Tail(value) ELSE value, 0)

\* The tags hold, for every reserved key, what the last entry of block b with
\* that key says; is_recovering is false when no entry has that key.
HoldsLastValues(tags, b) ==
    /\ tags.architecture = LastValue(b, STR_architecture)
    /\ tags.hasher = LastValue(b, STR_hasher)
    /\ tags.depth = DepthOf(LastValue(b, STR_depth))
    /\ tags.is_recovering =
          IF Occurrences(b, STR_is_recovering) = { } THEN FALSE
          ELSE LastValue(b, STR_is_recovering) = STR_true

\* C21: a tag block whose entries are all accepted and hold the three required
\* keys decodes to tags where each of architecture, hasher, depth and
\* is_recovering has the value of the last entry with that key in wire order;
\* a manifest with one more well-formed entry for a reserved key, before or
\* after the entries it had, decodes without error, and an is_recovering
\* entry `false` written after one with `true` leaves is_recovering false.
C21_LastWriterWins ==
    /\ (DecodedBy("manifest") /\ AllCountedAccepted(BlockOf(input))
          /\ \A i \in 1..3 : RequiredKeys[i] \in CountedKeys(BlockOf(input))) =>
          /\ outcome.ok
          /\ outcome.val.tags.some
          /\ HoldsLastValues(outcome.val.tags.val, BlockOf(input))
    /\ (DecodedBy("manifest") /\ shape = "inserted") =>
          /\ outcome.ok
          /\ Cardinality(Occurrences(BlockOf(input), edit.key)) =
                IF edit.key = STR_is_recovering /\ ~orig.v.tags.val.is_recovering
                THEN 1 ELSE 2
          /\ (edit.key = STR_is_recovering /\ edit.n = 1 /\ edit.bytes = STR_false) =>
                ~outcome.val.tags.val.is_recovering

\* A recovering manifest with a second is_recovering entry, `false`, after
\* the one it has.
C21_Witness ==
    /\ DecodedBy("manifest") /\ shape = "inserted" /\ outcome.ok
    /\ edit.key = STR_is_recovering /\ edit.n = 1 /\ edit.bytes = STR_false
    /\ orig.v.tags.val.is_recovering
    /\ ~outcome.val.tags.val.is_recovering


\* ---------------------------------------------------------------------
\* Presence of tags in a manifest

\* C22: Manifest::deserialize returns a manifest without tags exactly when
\* the input ends with the LEB128 version_count; when a byte follows it, the
\* result is a manifest with tags or an error. Manifest::serialize writes the
\* LEB128 version_count alone when tags is absent, and at least one byte
\* after it when tags is present.
C22_TagPresence ==
    /\ (DecodedBy("manifest") /\ leb128_read_unsigned(input).ok) =>
          IF AfterCount(input) = << >>
          THEN outcome = Ok(Manifest(leb128_read_unsigned(input).val, None))
          ELSE outcome.ok => outcome.val.tags.some
    /\ (DecodedBy("manifest") /\ outcome.ok /\ ~outcome.val.tags.some) =>
          (leb128_read_unsigned(input).ok /\ AfterCount(input) = << >>)
    /\ (pc = "encoded" /\ shape = "whole" /\ orig.type = "manifest") =>
          IF orig.v.tags.some
          THEN leb128_read_unsigned(encoded).ok /\ AfterCount(encoded) # << >>
          ELSE IsLeb128Of(encoded, orig.v.version_count)

\* A manifest with tags cut right after its version_count decodes to a
\* manifest without tags.
C22_Witness ==
    /\ DecodedBy("manifest") /\ shape = "prefix"
    /\ orig.type = "manifest" /\ orig.v.tags.some
    /\ leb128_read_unsigned(input).ok /\ AfterCount(input) = << >>
    /\ outcome = Ok(Manifest(orig.v.version_count, None))


\* ---------------------------------------------------------------------
\* Bytes after an encoding

\* The input is the whole encoding of a value of the given type followed by
\* other bytes, and the decoder of that type has read it.
PaddedRun(type) ==
    /\ DecodedBy(type) /\ orig.type = type /\ shape = "padded"
    /\ Len(input) = Len(encoded) + edit.n
    /\ SubSeq(input, 1, Len(encoded)) = encoded
    /\ SubSeq(input, Len(encoded) + 1, Len(input)) = edit.bytes

\* C23: LeafNode::deserialize of a serialized leaf followed by any bytes
\* returns that leaf, and InternalNode::deserialize of a serialized internal
\* node followed by any bytes returns that node.
C23_TrailingIgnored ==
    /\ PaddedRun("leaf") => outcome = Ok(orig.v)
    /\ PaddedRun("internal") => outcome = Ok(orig.v)

\* A leaf followed by forty bytes 0xFF, decoded to the leaf.
C23_Witness ==
    /\ PaddedRun("leaf")
    /\ edit.bytes = Fill(255, 40)
    /\ outcome = Ok(orig.v)


\* C24 as stated: a serialized root followed by any bytes decodes to the
\* root, and a root with leaf_count = 1 holding an internal node with a
\* single child, followed by padding, decodes to a root holding an internal
\* node and not a leaf.
C24_AsStated ==
    PaddedRun("root") =>
        /\ outcome = Ok(orig.v)
        /\ (HoldsInternal(orig.v) /\ orig.v.leaf_count = FromNat(1)
              /\ ChildCountOf(orig.v) = 1) =>
              (outcome.ok /\ HoldsInternal(outcome.val))

\* C24, amended: bytes after the encoding do not change the decoded root for
\* Empty, for a root with leaf_count = 1 holding a leaf, and for a root
\* holding an internal node with leaf_count >= 2.  A root with leaf_count = 1
\* holding an internal node (a single child included) decodes to the original
\* as long as the bytes after the leaf count, padding included, do not parse
\* as a leaf, which is so whenever they are fewer than KEY_SIZE + HASH_SIZE;
\* when they do, the result is a root holding a leaf.  A root holding a leaf
\* with leaf_count >= 2 never decodes to a root holding a leaf.
C24_RootTrailing ==
    PaddedRun("root") =>
        /\ (~IsFilled(orig.v)
              \/ (HoldsLeaf(orig.v) /\ orig.v.leaf_count = FromNat(1))
              \/ (HoldsInternal(orig.v) /\ orig.v.leaf_count # FromNat(1))) =>
              outcome = Ok(orig.v)
        /\ (HoldsInternal(orig.v) /\ orig.v.leaf_count = FromNat(1)) =>
              /\ IF LeafNode_deserialize(AfterCount(input)).ok
                 THEN /\ outcome.ok /\ HoldsLeaf(outcome.val)
                      /\ outcome.val.leaf_count = FromNat(1)
                 ELSE outcome = Ok(orig.v)
              /\ Len(AfterCount(input)) < KEY_SIZE + HASH_SIZE =>
                    outcome = Ok(orig.v)
        /\ MisfiledLeaf(orig.v) => (outcome.ok => HoldsInternal(outcome.val))

\* A root with leaf_count = 1 holding an internal node with one child,
\* followed by thirty zero bytes: the root decoded holds a leaf.
C24_Witness ==
    /\ PaddedRun("root")
    /\ HoldsInternal(orig.v) /\ orig.v.leaf_count = FromNat(1)
    /\ ChildCountOf(orig.v) = 1
    /\ edit.bytes = Fill(0, 30)
    /\ outcome.ok /\ HoldsLeaf(outcome.val)


\* ---------------------------------------------------------------------
\* Which error the tag decoder returns

\* Entry k of block b is not accepted: the bytes end before it, its strings
\* cannot be read, or its key or value is refused.
EntryFails(b, k) == k > Len(b.entries) \/ ~EntryAccepted(b.entries[k])

\* Some entry among the entry_count entries of block b is not accepted.
SomeEntryFails(b) ==
    \E k \in 1..(Len(b.entries) + 1) : NatLessWord(k - 1, b.count) /\ EntryFails(b, k)

\* The first such entry in wire order.
FirstFailing(b) ==
    CHOOSE k \in 1..(Len(b.entries) + 1) :
        /\ NatLessWord(k - 1, b.count) /\ EntryFails(b, k)
        /\ \A j \in 1..(k - 1) : ~EntryFails(b, j)

\* The error e is the one entry k of block b calls for.
IsErrorOfEntry(e, b, k) ==
    /\ ~e.ok
    /\ IF k > Len(b.entries) THEN e.kind = "Leb128"
       ELSE IF ~b.entries[k].ok THEN e.kind \in { "Leb128", "UnexpectedEof", "Utf8" }
       ELSE IF IsForeignKey(b.entries[k].key)
       THEN e = Err("UnknownTag", "None", b.entries[k].key, "None")
       ELSE /\ e.kind = "MalformedTag"
            /\ e.name = b.entries[k].key
            /\ e.name \in { STR_depth, STR_is_recovering }

\* The tag decoder has read a block written entry by entry whose entries at
\* places i and j > i both fail on their own, the first for its key.
TwoFaults(b) ==
    \E i \in 1..Len(b.entries) : \E j \in (i + 1)..Len(b.entries) :
        /\ NatLessWord(j - 1, b.count)
        /\ FirstFailing(b) = i
        /\ IsForeignKey(b.entries[i].key)
        /\ b.entries[j].key = STR_depth /\ ~EntryAccepted(b.entries[j])

\* C25: the error of the tag decoder is that of the first entry, in wire
\* order, that is not accepted (strings that cannot be read, an unknown key,
\* a depth or is_recovering value that does not parse), whatever the entries
\* after it hold and whichever required keys are absent; MissingTag is
\* returned only when all entry_count entries are accepted, and it names the
\* first absent key in the order architecture, hasher, depth.
C25_ErrorPrecedence ==
    /\ (DecodedBy("manifest") /\ BlockOf(input).ok /\ SomeEntryFails(BlockOf(input))) =>
          IsErrorOfEntry(outcome, BlockOf(input), FirstFailing(BlockOf(input)))
    /\ (DecodedBy("manifest") /\ ~outcome.ok /\ outcome.kind = "MissingTag") =>
          /\ AllCountedAccepted(BlockOf(input))
          /\ outcome.name = FirstAbsent(CountedKeys(BlockOf(input)))
    /\ (DecodedBy("manifest") /\ BlockOf(input).ok /\ ~SomeEntryFails(BlockOf(input))) =>
          \/ outcome.ok
          \/ outcome = Err("MissingTag", "None",
                           FirstAbsent(CountedKeys(BlockOf(input))), "None")

\* A block of an unknown key, then a depth that does not parse, with no
\* architecture and no hasher: the error is UnknownTag.
C25_Witness ==
    /\ DecodedBy("manifest") /\ shape = "block"
    /\ BlockOf(input).ok
    /\ TwoFaults(BlockOf(input))
    /\ STR_architecture \notin CountedKeys(BlockOf(input))
    /\ outcome = Err("UnknownTag", "None", << 120 >>, "None")


\* ---------------------------------------------------------------------
\* ValidationTracer

IsInstruction(c) == c.fn = "before_instruction"

IsHook(c) == c.fn = "on_bootloader_hook"

\* After the calls cs the account validation is under way: some
\* AccountValidationEntered hook is among them with no ValidationExited hook
\* after it.
Validating(cs) ==
    \E i \in 1..Len(cs) :
        /\ IsHook(cs[i]) /\ cs[i].arg = Hook_AccountValidationEntered
        /\ \A j \in (i + 1)..Len(cs) :
              ~(IsHook(cs[j]) /\ cs[j].arg = Hook_ValidationExited)

\* Call i of cs is a Ret(Panic) instruction with no gas left in the frame.
ZeroGasPanic(cs, i) ==
    IsInstruction(cs[i]) /\ cs[i].arg = Ret_Panic /\ cs[i].gas = 0

\* Call i of cs is such an instruction seen during validation.
ExhaustedAt(cs, i) == ZeroGasPanic(cs, i) /\ Validating(SubSeq(cs, 1, i - 1))

Exhausted(cs) == \E i \in 1..Len(cs) : ExhaustedAt(cs, i)

\* C26: once a Ret(Panic) instruction with zero gas in the current frame has
\* been seen during validation, out_of_gas is true after every sequence of
\* instructions and hooks that follows, probably_out_of_gas() returns true
\* and validation_error() returns TookTooManyComputationalGas; as long as no
\* such instruction has been seen, validation_error() returns None.
C26_OutOfGasSticky ==
    IF Exhausted(calls)
    THEN /\ tracer.out_of_gas
         /\ probably_out_of_gas(tracer)
         /\ validation_error(tracer).some
         /\ validation_error(tracer).val[1] = "TookTooManyComputationalGas"
    ELSE /\ ~validation_error(tracer).some
         /\ ~probably_out_of_gas(tracer)

\* Validation entered, a zero-gas Ret(Panic), validation exited and entered
\* again: out_of_gas is still true.
C26_Witness ==
    /\ Len(calls) = 4
    /\ ExhaustedAt(calls, 2)
    /\ IsHook(calls[3]) /\ calls[3].arg = Hook_ValidationExited
    /\ IsHook(calls[4]) /\ calls[4].arg = Hook_AccountValidationEntered
    /\ tracer = ValidationTracer(TRUE, TRUE)
    /\ validation_error(tracer) = Some(TookTooManyComputationalGas(0))

\* The last call made to the tracer.
LastCall == calls[Len(calls)]

\* C27: from the default state, out_of_gas is true only if a Ret(Panic)
\* instruction with zero frame gas was seen after an AccountValidationEntered
\* hook with no ValidationExited hook since, and in_validation is true exactly
\* between such hooks; an instruction seen while in_validation is false, an
\* instruction other than a zero-gas Ret(Panic), and a hook other than
\* AccountValidationEntered and ValidationExited leave both flags as they
\* were.
C27_OnlyInValidation ==
    /\ calls = << >> => tracer = ValidationTracer(FALSE, FALSE)
    /\ tracer.out_of_gas => Exhausted(calls)
    /\ tracer.in_validation = Validating(calls)
    /\ (calls # << >> /\ IsInstruction(LastCall)
          /\ (~LastCall.self.in_validation \/ ~ZeroGasPanic(calls, Len(calls)))) =>
          tracer = LastCall.self
    /\ (calls # << >> /\ IsHook(LastCall)
          /\ LastCall.arg \notin { Hook_AccountValidationEntered, Hook_ValidationExited }) =>
          tracer = LastCall.self

\* A zero-gas Ret(Panic) seen after validation was exited: out_of_gas stays
\* false.
C27_Witness ==
    /\ Len(calls) = 3
    /\ IsHook(calls[1]) /\ calls[1].arg = Hook_AccountValidationEntered
    /\ IsHook(calls[2]) /\ calls[2].arg = Hook_ValidationExited
    /\ ZeroGasPanic(calls, 3)
    /\ tracer = ValidationTracer(FALSE, FALSE)

=============================================================================
